---- MODULE Spec2Model ----
(***************************************************************************)
(* MemeTrackr: the trading bot (server/trading-bot.ts, here                *)
(* src/unnamed/part_000) and the part of the analytics engine it drives    *)
(* (server/analytics-engine.ts, here src/unnamed/part_001).                *)
(*                                                                         *)
(* A JavaScript number is modelled as an extended rational <<n, d>>:       *)
(*   d > 0          the finite value n/d, in lowest terms;                 *)
(*   <<1, 0>>       +Infinity,  <<-1, 0>>  -Infinity,  <<0, 0>>  NaN.      *)
(* Arithmetic is exact (no rounding, no overflow); division by zero and    *)
(* the comparisons follow IEEE 754 as JavaScript applies it.               *)
(***************************************************************************)
EXTENDS Integers, Sequences, FiniteSets, TLC

\* ------------------------------------------------------------ numbers

AbsInt(x) == IF x < 0 THEN -x ELSE x

SignInt(x) == IF x < 0 THEN -1 ELSE IF x > 0 THEN 1 ELSE 0

RECURSIVE GCD(_, _)
GCD(a, b) == IF b = 0 THEN a ELSE GCD(b, a % b)

\* The number n/d (d any integer), in the canonical form described above.
Norm(n, d) ==
  IF d = 0 THEN <<SignInt(n), 0>>
  ELSE LET g == GCD(AbsInt(n), AbsInt(d))
           s == IF d < 0 THEN -1 ELSE 1
       IN  <<(s * n) \div g, (s * d) \div g>>

I(x) == <<x, 1>>

NaN == <<0, 0>>

IsNaN(x) == x = NaN

IsFinite(x) == x[2] > 0

Add(x, y) ==
  IF x[2] = 0 /\ y[2] = 0
  THEN (IF x = y THEN x ELSE NaN)
  ELSE Norm(x[1] * y[2] + y[1] * x[2], x[2] * y[2])

Neg(x) == <<-x[1], x[2]>>

Sub(x, y) == Add(x, Neg(y))

Mul(x, y) == Norm(x[1] * y[1], x[2] * y[2])

\* x / y; a finite x over 0 is +-Infinity, 0/0 and Infinity/Infinity are NaN.
Div(x, y) == Norm(x[1] * y[2] * (IF y[1] < 0 THEN -1 ELSE 1), x[2] * AbsInt(y[1]))

\* x < y; every comparison with NaN is false.
Lt(x, y) ==
  IF IsNaN(x) \/ IsNaN(y) THEN FALSE
  ELSE IF x[2] = 0 /\ y[2] = 0 THEN x[1] < y[1]
  ELSE IF x[2] = 0 THEN x[1] < 0
  ELSE IF y[2] = 0 THEN y[1] > 0
  ELSE x[1] * y[2] < y[1] * x[2]

Gt(x, y) == Lt(y, x)

Le(x, y) == ~IsNaN(x) /\ ~IsNaN(y) /\ ~Lt(y, x)

Ge(x, y) == Le(y, x)

\* Math.abs
Abs(x) == <<AbsInt(x[1]), x[2]>>

\* Math.min(x, y): NaN when either is NaN.
Min(x, y) == IF IsNaN(x) \/ IsNaN(y) THEN NaN ELSE IF Lt(y, x) THEN y ELSE x

\* JavaScript truthiness of a number: 0 and NaN are falsy.
Truthy(x) == ~IsNaN(x) /\ x # I(0)

\* null and undefined
Null == [null |-> TRUE]


\* ------------------------------------------------------------ bounds

\* Longest trade history the bot is let to build (a buy adds two records).
MaxTrades == 4

\* Signals a caller holds on to (the pool executeAdvancedOrder is called on).
MaxSignals == 1

\* Strategy records the analytics engine seeds at construction
\* (the code seeds 100).
SeedCount == 1

\* Longest trade history of the long run that realizes losses.
MaxLossTrades == 15

\* ------------------------------------------------------------ constants

dailyLossLimit == 500

\* ------------------------------------------------------------ tokens

\* storage.getAllTokens(): the token directory, in its order.  ageMinutes
\* is (Date.now() - launchTime) / 60000 as the scorers compute it.
TokenA == [address |-> "A", liquidity |-> I(25000), holders |-> I(100),
           volume |-> I(20000), priceChange |-> I(25),
           socialMentions |-> I(200), ageMinutes |-> I(30)]

TokenB == [address |-> "B", liquidity |-> I(25000), holders |-> I(60),
           volume |-> I(6000), priceChange |-> I(15),
           socialMentions |-> I(200), ageMinutes |-> I(30)]

AllTokens == <<TokenA, TokenB>>

Addresses == {AllTokens[i].address : i \in 1..Len(AllTokens)}

\* ------------------------------------------------------------ state

VARIABLES
  isRunning,            \* TradingBot.isRunning
  settings,             \* TradingBot.settings
  marketDataCache,      \* TradingBot.marketDataCache: address -> snapshot or Null
  technicalIndicators,  \* TradingBot.technicalIndicators: address -> indicators or Null
  portfolio,            \* TradingBot.portfolio; positions is the Map, in insertion order
  tradeHistory,         \* TradingBot.tradeHistory
  currentDailyLoss,     \* TradingBot.currentDailyLoss
  timers,               \* the sets of interval timers start() has registered
  strategyHistory,      \* AnalyticsEngine.strategyHistory
  analyticsTrades,      \* AnalyticsEngine.tradeHistory
  signals,              \* the TradingSignal objects a caller holds
  pending,              \* the executeAdvancedOrder calls suspended at an await
  call                  \* the last direct call and its inputs, where recorded

vars == <<isRunning, settings, marketDataCache, technicalIndicators, portfolio,
          tradeHistory, currentDailyLoss, timers, strategyHistory,
          analyticsTrades, signals, pending, call>>

\* The bot and the analytics engine as one value, so that a method is an
\* operator from state (and arguments) to state.
Bot ==
  [isRunning |-> isRunning, settings |-> settings,
   marketDataCache |-> marketDataCache,
   technicalIndicators |-> technicalIndicators, portfolio |-> portfolio,
   tradeHistory |-> tradeHistory, currentDailyLoss |-> currentDailyLoss,
   timers |-> timers, strategyHistory |-> strategyHistory,
   analyticsTrades |-> analyticsTrades]

Commit(s) ==
  /\ isRunning' = s.isRunning
  /\ settings' = s.settings
  /\ marketDataCache' = s.marketDataCache
  /\ technicalIndicators' = s.technicalIndicators
  /\ portfolio' = s.portfolio
  /\ tradeHistory' = s.tradeHistory
  /\ currentDailyLoss' = s.currentDailyLoss
  /\ timers' = s.timers
  /\ strategyHistory' = s.strategyHistory
  /\ analyticsTrades' = s.analyticsTrades

DefaultSettings ==
  [maxInvestment |-> I(100), stopLoss |-> I(20), takeProfit |-> I(50),
   minLiquidity |-> I(10000), minHolders |-> I(50),
   socialSentimentWeight |-> Norm(3, 10), enabled |-> FALSE]

initializePortfolio ==
  [totalValue |-> I(1000), availableBalance |-> I(1000), positions |-> <<>>,
   totalProfit |-> I(0), activeTrades |-> 0]

\* ------------------------------------------------------------ the positions Map

PosIndex(positions, addr) ==
  IF \E i \in 1..Len(positions) : positions[i].tokenAddress = addr
  THEN CHOOSE i \in 1..Len(positions) : positions[i].tokenAddress = addr
  ELSE 0

\* Map.get
PosGet(positions, addr) ==
  IF PosIndex(positions, addr) = 0 THEN Null
  ELSE positions[PosIndex(positions, addr)]

\* Map.set: an existing key keeps its place, a new key goes last.
PosSet(positions, addr, amount, avgPrice, unrealizedPnL) ==
  LET e == [tokenAddress |-> addr, amount |-> amount, avgPrice |-> avgPrice,
            unrealizedPnL |-> unrealizedPnL]
      i == PosIndex(positions, addr)
  IN  IF i = 0 THEN Append(positions, e) ELSE [positions EXCEPT ![i] = e]

\* Map.delete
PosDelete(positions, addr) ==
  LET i == PosIndex(positions, addr)
  IN  IF i = 0 THEN positions
      ELSE SubSeq(positions, 1, i - 1) \o SubSeq(positions, i + 1, Len(positions))


\* ------------------------------------------------------------ market data

\* getJupiterPrice's result jupiterPrice (a positive number or Null: the
\* code maps 0 to null) and getDexScreenerData's result dexScreenerData
\* (Null or [price, volume24h]); rndVolume and rndChange are the two
\* Math.random() draws, already scaled.  bidPrice, askPrice, marketCap and
\* timestamp are derived from price and the clock and read by nothing.
fetchRealTimeMarketData(jupiterPrice, dexScreenerData, rndVolume, rndChange) ==
  IF jupiterPrice = Null /\ dexScreenerData = Null THEN Null
  ELSE LET price ==
             IF jupiterPrice # Null /\ Truthy(jupiterPrice) THEN jupiterPrice
             ELSE IF dexScreenerData # Null /\ Truthy(dexScreenerData.price)
                  THEN dexScreenerData.price
                  ELSE I(0)
           volume24h ==
             IF dexScreenerData # Null /\ Truthy(dexScreenerData.volume24h)
             THEN dexScreenerData.volume24h
             ELSE rndVolume
       IN  [price |-> price, volume24h |-> volume24h,
            priceChange24h |-> rndChange]

\* A collectMarketData that does not look at isRunning.
collectMarketDataUnguarded(s, fetched) ==
  [s EXCEPT !.marketDataCache =
     [a \in Addresses |->
        IF fetched[a] # Null THEN fetched[a] ELSE s.marketDataCache[a]]]

\* fetched[address] is what fetchRealTimeMarketData returned for the token.
collectMarketData(s, fetched) ==
  IF ~s.isRunning THEN s
  ELSE [s EXCEPT !.marketDataCache =
          [a \in Addresses |->
             IF fetched[a] # Null THEN fetched[a] ELSE s.marketDataCache[a]]]

\* rnd holds the Math.random() draws of one call, already scaled: rsi in
\* [30, 70), the factors f20 in [0.95, 1.05) and f50 in [0.9, 1.1), and the
\* MACD triple.  The Bollinger bands are fixed offsets of price, read by
\* nothing.
calculateTechnicalIndicators(marketData, rnd) ==
  [rsi |-> rnd.rsi,
   macd |-> [macd |-> rnd.macd, signal |-> rnd.signal,
             histogram |-> rnd.histogram],
   sma20 |-> Mul(marketData.price, rnd.f20),
   sma50 |-> Mul(marketData.price, rnd.f50),
   volumeProfile |-> Div(marketData.volume24h, I(10000))]

\* draws[address] is the draw of the token's calculateTechnicalIndicators.
updateTechnicalIndicators(s, draws) ==
  IF ~s.isRunning THEN s
  ELSE [s EXCEPT !.technicalIndicators =
          [a \in Addresses |->
             IF s.marketDataCache[a] # Null
             THEN calculateTechnicalIndicators(s.marketDataCache[a], draws[a])
             ELSE s.technicalIndicators[a]]]

\* ------------------------------------------------------------ the primary scorer

\* A heuristic that overwrites the score with its weight.
ScoreOverwritten(acc, triggered, weight, label) ==
  IF triggered
  THEN [confidence |-> I(weight),
        reasons |-> IF label = "" THEN acc.reasons ELSE Append(acc.reasons, label)]
  ELSE acc

\* One heuristic of a scorer: when it triggers, add its weight and label.
Score(acc, triggered, weight, label) ==
  IF triggered
  THEN [confidence |-> Add(acc.confidence, I(weight)),
        reasons |-> IF label = "" THEN acc.reasons ELSE Append(acc.reasons, label)]
  ELSE acc

\* The accumulated confidence and reasons of generateAdvancedTradingSignal,
\* before the filter and the cap.
AdvancedScore(stg, token, marketData, indicators) ==
  LET c0 == [confidence |-> I(0), reasons |-> <<>>]
      c1 == IF Lt(indicators.rsi, I(30))
            THEN Score(c0, TRUE, 15, "RSI oversold")
            ELSE Score(c0, Gt(indicators.rsi, I(70)), -10, "RSI overbought")
      c2 == Score(c1, Gt(marketData.price, indicators.sma20)
                      /\ Gt(indicators.sma20, indicators.sma50),
                  20, "Bullish trend")
      c3 == Score(c2, Gt(indicators.macd.macd, indicators.macd.signal)
                      /\ Gt(indicators.macd.histogram, I(0)),
                  15, "MACD bullish crossover")
      c4 == Score(c3, Gt(marketData.volume24h, Mul(indicators.volumeProfile, I(2))),
                  20, "High volume breakout")
      c5 == Score(c4, Gt(token.liquidity, Mul(stg.minLiquidity, I(2))),
                  10, "Strong liquidity")
      c6 == Score(c5, Gt(token.holders, Mul(stg.minHolders, Norm(3, 2))),
                  10, "Growing holder base")
      c7 == Score(c6, Gt(Mul(token.socialMentions, stg.socialSentimentWeight), I(30)),
                  20, "High social interest")
      c8 == Score(c7, Lt(token.ageMinutes, I(60)), 10, "Early launch opportunity")
  IN  c8

\* A ternary whose lower cutoff is the filter's 60.
AdvancedActionFrom60(confidence) ==
  IF Gt(confidence, I(85)) THEN "BUY"
  ELSE IF Ge(confidence, I(60)) THEN "BUY" ELSE "HOLD"

\* signal: confidence > 85 ? 'BUY' : confidence > 70 ? 'BUY' : 'HOLD'
AdvancedAction(confidence) ==
  IF Gt(confidence, I(85)) THEN "BUY"
  ELSE IF Gt(confidence, I(70)) THEN "BUY" ELSE "HOLD"

\* A scorer that forgets the cap.
AdvancedConfidenceUncapped(confidence) == confidence

AdvancedConfidence(confidence) == Min(confidence, I(95))

generateAdvancedTradingSignal(s, token) ==
  LET marketData == s.marketDataCache[token.address]
      indicators == s.technicalIndicators[token.address]
  IN  IF marketData = Null \/ indicators = Null THEN Null
      ELSE LET sc == AdvancedScore(s.settings, token, marketData, indicators)
           IN  IF Lt(sc.confidence, I(60)) THEN Null
               ELSE [tokenAddress |-> token.address,
                     signal |-> AdvancedAction(sc.confidence),
                     confidence |-> AdvancedConfidence(sc.confidence),
                     reason |-> sc.reasons,
                     price |-> marketData.price,
                     executed |-> FALSE]


\* ------------------------------------------------------------ the alternate scorer

\* The accumulated confidence and reasons of generateTradingSignal once the
\* low-liquidity tokens are gone.
SimpleScore(stg, token) ==
  LET c0 == [confidence |-> I(0), reasons |-> <<>>]
      c1 == Score(c0, Gt(token.liquidity, Mul(stg.minLiquidity, I(2))),
                  25, "High liquidity")
      c2 == IF Gt(token.holders, Mul(stg.minHolders, I(2)))
            THEN Score(c1, TRUE, 20, "Strong holder base")
            ELSE Score(c1, Gt(token.holders, stg.minHolders), 10, "")
      c3 == IF Gt(token.priceChange, I(20))
            THEN Score(c2, TRUE, 25, "Strong upward momentum")
            ELSE IF Gt(token.priceChange, I(10)) THEN Score(c2, TRUE, 15, "")
            ELSE Score(c2, Lt(token.priceChange, I(-10)), -20, "Negative momentum")
      volumeToLiquidityRatio == Div(token.volume, token.liquidity)
      c4 == IF Gt(volumeToLiquidityRatio, Norm(1, 2))
            THEN Score(c3, TRUE, 15, "High trading volume")
            ELSE Score(c3, Gt(volumeToLiquidityRatio, Norm(1, 5)), 8, "")
      socialWeight == Mul(stg.socialSentimentWeight, I(100))
      c5 == IF Gt(token.socialMentions, I(50))
            THEN [confidence |-> Add(c4.confidence, socialWeight),
                  reasons |-> Append(c4.reasons, "High social interest")]
            ELSE IF Gt(token.socialMentions, I(20))
                 THEN [c4 EXCEPT !.confidence = Add(@, Mul(socialWeight, Norm(1, 2)))]
                 ELSE c4
      c6 == IF Lt(token.ageMinutes, I(60))
            THEN Score(c5, TRUE, 10, "Very early launch")
            ELSE Score(c5, Gt(token.ageMinutes, I(720)), -10, "")
  IN  c6

\* signal: confidence > 80 ? 'BUY' : confidence > 60 ? 'BUY' : 'HOLD'
SimpleAction(confidence) ==
  IF Gt(confidence, I(80)) THEN "BUY"
  ELSE IF Gt(confidence, I(60)) THEN "BUY" ELSE "HOLD"

SimpleConfidence(confidence) == Min(confidence, I(95))

\* The signal's price is estimateTokenPrice(token), a product of logarithms
\* that nothing downstream of this scorer reads; it is left out.
generateTradingSignal(s, token) ==
  IF ~Gt(token.liquidity, Mul(s.settings.minLiquidity, I(2)))
     /\ Lt(token.liquidity, s.settings.minLiquidity)
  THEN Null
  ELSE LET sc == SimpleScore(s.settings, token)
       IN  IF Lt(sc.confidence, I(50)) THEN Null
           ELSE [tokenAddress |-> token.address,
                 signal |-> SimpleAction(sc.confidence),
                 confidence |-> SimpleConfidence(sc.confidence),
                 reason |-> sc.reasons,
                 executed |-> FALSE]

\* ------------------------------------------------------------ the risk gate

\* A position size that leaves the confidence out.
calculatePositionSizeFlat(s, signal) == s.settings.maxInvestment

calculatePositionSize(s, signal) ==
  LET baseAmount == s.settings.maxInvestment
      confidenceMultiplier == Div(signal.confidence, I(100))
      volatilityAdjustment == I(1)
  IN  Mul(Mul(baseAmount, confidenceMultiplier), volatilityAdjustment)

\* A gate that still admits at the limit itself.
DailyLossLimitExceeded(s) == Gt(s.currentDailyLoss, I(dailyLossLimit))

DailyLossLimitReached(s) == Ge(s.currentDailyLoss, I(dailyLossLimit))

passRiskChecks(s, signal) ==
  IF DailyLossLimitReached(s) THEN FALSE
  ELSE LET requiredAmount == calculatePositionSize(s, signal)
           maxPositionSize == Mul(s.portfolio.totalValue, Norm(1, 10))
           marketData == s.marketDataCache[signal.tokenAddress]
       IN  IF Gt(requiredAmount, s.portfolio.availableBalance) THEN FALSE
           ELSE IF Gt(requiredAmount, maxPositionSize) THEN FALSE
           ELSE IF marketData # Null /\ Gt(Abs(marketData.priceChange24h), I(50))
                THEN FALSE
                ELSE TRUE

\* ------------------------------------------------------------ the ledger

\* The Trade record; id, status and timestamp are left out (the clock).
placeBuyOrder(signal, amount) ==
  [tokenAddress |-> signal.tokenAddress, action |-> "BUY", amount |-> amount,
   price |-> signal.price]

\* An upsert that averages the two prices without their weights.
BuyUpsertUnweighted(positions, trade) ==
  LET existingPosition == PosGet(positions, trade.tokenAddress)
  IN  IF existingPosition # Null
      THEN PosSet(positions, trade.tokenAddress,
                  Add(existingPosition.amount, trade.amount),
                  Div(Add(existingPosition.avgPrice, trade.price), I(2)), I(0))
      ELSE PosSet(positions, trade.tokenAddress, trade.amount, trade.price, I(0))

\* The position a buy leaves for the trade's token.
BuyUpsert(positions, trade) ==
  LET existingPosition == PosGet(positions, trade.tokenAddress)
  IN  IF existingPosition # Null
      THEN LET totalAmount == Add(existingPosition.amount, trade.amount)
               avgPrice == Div(Add(Mul(existingPosition.avgPrice, existingPosition.amount),
                                   Mul(trade.price, trade.amount)),
                               totalAmount)
           IN  PosSet(positions, trade.tokenAddress, totalAmount, avgPrice, I(0))
      ELSE PosSet(positions, trade.tokenAddress, trade.amount, trade.price, I(0))

updatePortfolioAfterBuy(s, trade) ==
  [s EXCEPT !.portfolio.availableBalance = Sub(@, trade.amount),
            !.portfolio.activeTrades = @ + 1,
            !.portfolio.positions = BuyUpsert(@, trade),
            !.tradeHistory = Append(@, trade)]

logTrade(s, trade) == [s EXCEPT !.tradeHistory = Append(@, trade)]

\* AnalyticsEngine.recordTrade; id, the times and duration are left out
\* (the clock), reason is the signal's.
recordTrade(s, trade, strategy, confidence) ==
  [s EXCEPT !.analyticsTrades = Append(@, trade),
            !.strategyHistory =
               Append(@, [strategyName |-> strategy,
                          tokenAddress |-> trade.tokenAddress,
                          entryPrice |-> trade.price, exitPrice |-> Null,
                          pnl |-> Null, pnlPercentage |-> Null,
                          confidence |-> confidence, outcome |-> "ACTIVE"])]

\* signal.reason.split(',')[0] || 'Unknown Strategy'
StrategyOf(signal) ==
  IF signal.reason = <<>> THEN "Unknown Strategy" ELSE Head(signal.reason)

\* An executeAdvancedOrder without the executed guard.
executeAdvancedOrderUnguarded(s, signal) ==
  IF signal.signal # "BUY" THEN [s |-> s, signal |-> signal]
  ELSE IF ~passRiskChecks(s, signal) THEN [s |-> s, signal |-> signal]
  ELSE LET investmentAmount == calculatePositionSize(s, signal)
           trade == placeBuyOrder(signal, investmentAmount)
           s1 == updatePortfolioAfterBuy(s, trade)
           s2 == logTrade(s1, trade)
           s3 == recordTrade(s2, trade, StrategyOf(signal), signal.confidence)
       IN  [s |-> s3, signal |-> [signal EXCEPT !.executed = TRUE]]

\* An executeAdvancedOrder that does not ask the risk gate.
executeAdvancedOrderUngated(s, signal) ==
  IF signal.signal # "BUY" \/ signal.executed THEN [s |-> s, signal |-> signal]
  ELSE LET investmentAmount == calculatePositionSize(s, signal)
           trade == placeBuyOrder(signal, investmentAmount)
           s1 == updatePortfolioAfterBuy(s, trade)
           s2 == logTrade(s1, trade)
           s3 == recordTrade(s2, trade, StrategyOf(signal), signal.confidence)
       IN  [s |-> s3, signal |-> [signal EXCEPT !.executed = TRUE]]

\* The state and the signal object after executeAdvancedOrder(signal).
\* setupAutomaticOrders only logs.
executeAdvancedOrder(s, signal) ==
  IF signal.signal # "BUY" \/ signal.executed THEN [s |-> s, signal |-> signal]
  ELSE IF ~passRiskChecks(s, signal) THEN [s |-> s, signal |-> signal]
  ELSE LET investmentAmount == calculatePositionSize(s, signal)
           trade == placeBuyOrder(signal, investmentAmount)
           s1 == updatePortfolioAfterBuy(s, trade)
           s2 == logTrade(s1, trade)
           s3 == recordTrade(s2, trade, StrategyOf(signal), signal.confidence)
       IN  [s |-> s3, signal |-> [signal EXCEPT !.executed = TRUE]]

\* A cycle that executes every signal it is given.
RECURSIVE CycleLoopAll(_, _)
CycleLoopAll(s, tokens) ==
  IF tokens = <<>> THEN s
  ELSE LET signal == generateAdvancedTradingSignal(s, Head(tokens))
           s1 == IF signal # Null THEN executeAdvancedOrder(s, signal).s ELSE s
       IN  CycleLoopAll(s1, Tail(tokens))

RECURSIVE CycleLoop(_, _)
CycleLoop(s, tokens) ==
  IF tokens = <<>> THEN s
  ELSE LET signal == generateAdvancedTradingSignal(s, Head(tokens))
           s1 == IF signal # Null /\ Gt(signal.confidence, I(75))
                 THEN executeAdvancedOrder(s, signal).s
                 ELSE s
       IN  CycleLoop(s1, Tail(tokens))

executeFullTradingCycle(s) ==
  IF ~s.isRunning THEN s
  ELSE LET tradingCandidates ==
             SelectSeq(AllTokens,
                       LAMBDA token : s.marketDataCache[token.address] # Null
                                      /\ s.technicalIndicators[token.address] # Null)
       IN  CycleLoop(s, tradingCandidates)


\* A revaluation that adds to the unrealized P&L instead of replacing it.
RevaluedAccumulating(position, marketData) ==
  IF marketData = Null THEN position
  ELSE LET currentValue == Div(Mul(position.amount, marketData.price), position.avgPrice)
           costBasis == position.amount
       IN  [position EXCEPT !.unrealizedPnL = Add(@, Sub(currentValue, costBasis))]

\* position.unrealizedPnL as the revaluation pass leaves it.
Revalued(position, marketData) ==
  IF marketData = Null THEN position
  ELSE LET currentValue == Div(Mul(position.amount, marketData.price), position.avgPrice)
           costBasis == position.amount
       IN  [position EXCEPT !.unrealizedPnL = Sub(currentValue, costBasis)]

RECURSIVE SumPositions(_, _)
SumPositions(totalValue, positions) ==
  IF positions = <<>> THEN totalValue
  ELSE SumPositions(Add(totalValue,
                        Add(Head(positions).amount, Head(positions).unrealizedPnL)),
                    Tail(positions))

rebalancePortfolio(s) ==
  IF ~s.isRunning THEN s
  ELSE LET positions ==
             [i \in 1..Len(s.portfolio.positions) |->
                Revalued(s.portfolio.positions[i],
                         s.marketDataCache[s.portfolio.positions[i].tokenAddress])]
       IN  [s EXCEPT !.portfolio.positions = positions,
                     !.portfolio.totalValue =
                        SumPositions(s.portfolio.availableBalance, positions)]

\* ------------------------------------------------------------ exits

\* The outcome tag of an exit.
ExitOutcome(pnlPercentage) ==
  IF Gt(pnlPercentage, I(5)) THEN "WIN"
  ELSE IF Lt(pnlPercentage, I(-5)) THEN "LOSS" ELSE "BREAKEVEN"

\* AnalyticsEngine.updateTradeExit: the first ACTIVE record of the token, if
\* its entryPrice is truthy, is closed.
updateTradeExit(s, tokenAddress, exitPrice) ==
  LET found == {i \in 1..Len(s.strategyHistory) :
                  /\ s.strategyHistory[i].tokenAddress = tokenAddress
                  /\ s.strategyHistory[i].outcome = "ACTIVE"}
  IN  IF found = {} THEN s
      ELSE LET i == CHOOSE k \in found : \A j \in found : k <= j
               activeStrategy == s.strategyHistory[i]
               pnlPercentage ==
                 Mul(Div(Sub(exitPrice, activeStrategy.entryPrice),
                         activeStrategy.entryPrice), I(100))
           IN  IF ~Truthy(activeStrategy.entryPrice) THEN s
               ELSE [s EXCEPT !.strategyHistory[i] =
                       [activeStrategy EXCEPT
                          !.exitPrice = exitPrice,
                          !.pnlPercentage = pnlPercentage,
                          !.pnl = Mul(pnlPercentage, I(50)),
                          !.outcome = ExitOutcome(pnlPercentage)]]

\* A P&L that takes amount for a token quantity.
SellPnlPerToken(position, sellPrice) ==
  Mul(Sub(sellPrice, position.avgPrice), position.amount)

\* The realized P&L of a full exit.
SellPnl(position, sellPrice) ==
  Mul(Sub(sellPrice, position.avgPrice), Div(position.amount, position.avgPrice))

\* An exit that leaves activeTrades as it was.
executeSellOrderUncounted(s, tokenAddress) ==
  LET position == PosGet(s.portfolio.positions, tokenAddress)
      marketData == s.marketDataCache[tokenAddress]
  IN  IF position = Null \/ marketData = Null THEN s
      ELSE LET sellAmount == position.amount
               sellPrice == marketData.price
               pnl == SellPnl(position, sellPrice)
               s1 == [s EXCEPT
                        !.portfolio.availableBalance = Add(@, Add(sellAmount, pnl)),
                        !.portfolio.totalProfit = Add(@, pnl),
                        !.portfolio.positions = PosDelete(@, tokenAddress)]
               sellTrade == [tokenAddress |-> tokenAddress, action |-> "SELL",
                             amount |-> sellAmount, price |-> sellPrice]
           IN  updateTradeExit(logTrade(s1, sellTrade), tokenAddress, sellPrice)

\* reason (STOP_LOSS, TAKE_PROFIT) is only logged.
executeSellOrder(s, tokenAddress) ==
  LET position == PosGet(s.portfolio.positions, tokenAddress)
      marketData == s.marketDataCache[tokenAddress]
  IN  IF position = Null \/ marketData = Null THEN s
      ELSE LET sellAmount == position.amount
               sellPrice == marketData.price
               pnl == SellPnl(position, sellPrice)
               s1 == [s EXCEPT
                        !.portfolio.availableBalance = Add(@, Add(sellAmount, pnl)),
                        !.portfolio.totalProfit = Add(@, pnl),
                        !.portfolio.activeTrades = @ - 1,
                        !.portfolio.positions = PosDelete(@, tokenAddress)]
               sellTrade == [tokenAddress |-> tokenAddress, action |-> "SELL",
                             amount |-> sellAmount, price |-> sellPrice]
           IN  updateTradeExit(logTrade(s1, sellTrade), tokenAddress, sellPrice)

\* What the risk monitor decides for one position: "STOP_LOSS",
\* "TAKE_PROFIT" or "NONE".
stopLossPrice(stg, position) ==
  Mul(position.avgPrice, Sub(I(1), Div(stg.stopLoss, I(100))))

takeProfitPrice(stg, position) ==
  Mul(position.avgPrice, Add(I(1), Div(stg.takeProfit, I(100))))

\* A monitor that knows the stop-loss alone.
RiskTriggerStopOnly(stg, position, marketData) ==
  IF Le(marketData.price, stopLossPrice(stg, position)) THEN "STOP_LOSS" ELSE "NONE"

RiskTrigger(stg, position, marketData) ==
  IF Le(marketData.price, stopLossPrice(stg, position)) THEN "STOP_LOSS"
  ELSE IF Ge(marketData.price, takeProfitPrice(stg, position)) THEN "TAKE_PROFIT"
  ELSE "NONE"

\* The loop over positions.entries(): an entry deleted by its own exit is
\* the only change the Map sees during the pass.
RECURSIVE MonitorLoop(_, _)
MonitorLoop(s, addrs) ==
  IF addrs = <<>> THEN s
  ELSE LET tokenAddress == Head(addrs)
           position == PosGet(s.portfolio.positions, tokenAddress)
           marketData == s.marketDataCache[tokenAddress]
           s1 == IF marketData = Null THEN s
                 ELSE IF RiskTrigger(s.settings, position, marketData) = "NONE" THEN s
                 ELSE executeSellOrder(s, tokenAddress)
       IN  MonitorLoop(s1, Tail(addrs))

monitorRiskLimits(s) ==
  IF ~s.isRunning THEN s
  ELSE MonitorLoop(s, [i \in 1..Len(s.portfolio.positions) |->
                         s.portfolio.positions[i].tokenAddress])

\* ------------------------------------------------------------ lifecycle

\* start(): the five setInterval calls are one more set of timers; then the
\* initial collectMarketData and executeFullTradingCycle.
start(s, fetched) ==
  IF s.isRunning \/ ~s.settings.enabled THEN s
  ELSE LET s1 == [s EXCEPT !.isRunning = TRUE, !.timers = @ + 1]
       IN  executeFullTradingCycle(collectMarketData(s1, fetched))

isActive(s) == s.isRunning /\ s.settings.enabled

\* A stop that leaves the flag.
stopIgnored(s) == s

\* A stop that clears the timers.
stopClearing(s) == [s EXCEPT !.isRunning = FALSE, !.timers = 0]

stop(s) == [s EXCEPT !.isRunning = FALSE]

\* { ...this.settings, ...newSettings }
MergeSettings(stg, newSettings) ==
  [k \in DOMAIN stg |-> IF k \in DOMAIN newSettings THEN newSettings[k] ELSE stg[k]]

updateSettings(s, newSettings, fetched) ==
  LET s1 == [s EXCEPT !.settings = MergeSettings(@, newSettings)]
      given == "enabled" \in DOMAIN newSettings
  IN  IF given /\ newSettings.enabled /\ ~s1.isRunning THEN start(s1, fetched)
      ELSE IF given /\ ~newSettings.enabled /\ s1.isRunning THEN stop(s1)
      ELSE s1


\* A handler that gives up the scheduler on an exception.
tornDown(s) == [s EXCEPT !.isRunning = FALSE, !.timers = 0]

\* The bot after a cycle's exception was caught: the catch blocks of
\* collectMarketData and executeFullTradingCycle, and the .catch of each
\* timer callback, log the error and do nothing else.
caught(s) == s

\* ------------------------------------------------------------ status

\* A status read from the ledger; successRate has no source there.
getPortfolioStatusLive(s) ==
  [totalValue |-> s.portfolio.totalValue,
   availableBalance |-> s.portfolio.availableBalance,
   totalProfit |-> s.portfolio.totalProfit,
   activeTrades |-> s.portfolio.activeTrades,
   successRate |-> Norm(147, 2)]

\* getPortfolioStatus(): the literal it returns.
getPortfolioStatus(s) ==
  [totalValue |-> I(1000), availableBalance |-> I(500), totalProfit |-> I(150),
   activeTrades |-> 3, successRate |-> Norm(147, 2)]

\* ------------------------------------------------------------ construction

\* One record of generateHistoricalData's 100: rnd holds its Math.random()
\* draws, already scaled (strategy, entryPrice in [0.001, 0.101), priceChange
\* in [-0.2, 0.3), token, confidence in [60, 95)).
SeedRecord(rnd) ==
  LET exitPrice == Mul(rnd.entryPrice, Add(I(1), rnd.priceChange))
      pnlPercentage == Mul(Div(Sub(exitPrice, rnd.entryPrice), rnd.entryPrice), I(100))
  IN  [strategyName |-> rnd.strategy, tokenAddress |-> rnd.token,
       entryPrice |-> rnd.entryPrice, exitPrice |-> exitPrice,
       pnl |-> Mul(pnlPercentage, I(50)), pnlPercentage |-> pnlPercentage,
       confidence |-> rnd.confidence,
       outcome |-> IF Gt(pnlPercentage, I(0)) THEN "WIN"
                   ELSE IF Lt(pnlPercentage, I(-5)) THEN "LOSS" ELSE "BREAKEVEN"]

\* The draws the ledger's specifications seed the history with; the seeded
\* records belong to tokens (token_0 .. token_49) the bot never trades.
LedgerSeeds ==
  {[strategy |-> "Technical Breakout", token |-> "token_7",
    entryPrice |-> Norm(1, 100), priceChange |-> Norm(1, 10), confidence |-> I(80)]}

NoCall == [op |-> "none"]

\* The state after the module has built its TradingBot and AnalyticsEngine.
InitWith(seeds) ==
  /\ isRunning = FALSE
  /\ settings = DefaultSettings
  /\ marketDataCache = [a \in Addresses |-> Null]
  /\ technicalIndicators = [a \in Addresses |-> Null]
  /\ portfolio = initializePortfolio
  /\ tradeHistory = <<>>
  /\ currentDailyLoss = I(0)
  /\ timers = 0
  /\ strategyHistory \in [1..SeedCount -> {SeedRecord(r) : r \in seeds}]
  /\ analyticsTrades = <<>>
  /\ signals = <<>>
  /\ pending = <<>>
  /\ call = NoCall

Init == InitWith(LedgerSeeds)

\* ------------------------------------------------------------ the environment

\* What the two price sources answer for one token: "none" (both fail),
\* "zero" (no Jupiter price, a DexScreener pair priced 0), "one" (Jupiter
\* alone, price 1) and "two" (Jupiter's 2 beside DexScreener's 1).
JupiterAnswer(o) == CASE o = "one" -> I(1) [] o = "two" -> I(2) [] OTHER -> Null

DexScreenerAnswer(o) ==
  CASE o = "zero" -> [price |-> I(0), volume24h |-> I(20000)]
    [] o = "two" -> [price |-> I(1), volume24h |-> I(20000)]
    [] OTHER -> Null

\* Math.random() * 50000 and (Math.random() - 0.5) * 20
VolumeDraws == {I(20000)}

ChangeDraws == {I(5)}

FetchResults(outcomes) ==
  {fetchRealTimeMarketData(JupiterAnswer(o), DexScreenerAnswer(o), v, c) :
     o \in outcomes, v \in VolumeDraws, c \in ChangeDraws}

\* The fetches of one collectMarketData: token A is answered from forA,
\* token B from forB.
Fetches(forA, forB) ==
  {f \in [Addresses -> FetchResults(forA \cup forB)] :
     /\ f["A"] \in FetchResults(forA)
     /\ f["B"] \in FetchResults(forB)}

\* The draws of calculateTechnicalIndicators: a rising and a flat market.
Rising == [rsi |-> I(50), f20 |-> Norm(95, 100), f50 |-> Norm(90, 100),
           macd |-> Norm(4, 100), signal |-> Norm(1, 100), histogram |-> Norm(1, 100)]

Flat == [rsi |-> I(50), f20 |-> I(1), f50 |-> I(1),
         macd |-> Norm(-4, 100), signal |-> Norm(1, 100), histogram |-> Norm(-1, 100)]

\* A MACD crossover below the 50-period average.
Crossover == [rsi |-> I(50), f20 |-> Norm(95, 100), f50 |-> I(1),
              macd |-> Norm(4, 100), signal |-> Norm(1, 100), histogram |-> Norm(1, 100)]

Draws(forA, forB) ==
  {d \in [Addresses -> forA \cup forB] : d["A"] \in forA /\ d["B"] \in forB}

\* Most sets of timers start() is let to register.
MaxTimers == 2

\* env: what the environment may answer (fetched, draws), what the operator
\* may ask (updates: Partial<BotSettings> values), how long the run may grow
\* (maxTrades), and which calls are recorded in the variable call (trace).
MainEnv ==
  [fetched |-> Fetches({"none", "zero", "one", "two"}, {"none", "one"}),
   draws |-> Draws({Rising, Flat}, {Rising}),
   updates |-> {[enabled |-> TRUE]},
   maxTrades |-> MaxTrades,
   trace |-> {}]

Within(env, s) ==
  /\ Len(s.tradeHistory) <= env.maxTrades
  /\ s.timers <= MaxTimers

Traced(env, c) == call' = IF c.op \in env.trace THEN c ELSE NoCall

Step(env, c, s) ==
  Within(env, s) /\ Commit(s) /\ Traced(env, c) /\ UNCHANGED <<signals, pending>>

\* ------------------------------------------------------------ actions

\* POST /api/trading/settings, /start, /stop
UpdateSettings(env) ==
  /\ env.updates # {}
  /\ \E newSettings \in env.updates, fetched \in env.fetched :
       Step(env, [op |-> "updateSettings"],
            updateSettings(Bot, newSettings, fetched))

\* The timers of start(); each handler returns at once while the bot is
\* stopped.
CollectMarketData(env) ==
  /\ timers > 0
  /\ \E fetched \in env.fetched :
       Step(env, [op |-> "collectMarketData"], collectMarketData(Bot, fetched))

UpdateTechnicalIndicators(env) ==
  /\ timers > 0
  /\ \E draws \in env.draws :
       Step(env, [op |-> "updateTechnicalIndicators"],
            updateTechnicalIndicators(Bot, draws))

ExecuteFullTradingCycle(env) ==
  /\ timers > 0
  /\ Step(env, [op |-> "executeFullTradingCycle"], executeFullTradingCycle(Bot))

RebalancePortfolio(env) ==
  /\ timers > 0
  /\ Step(env, [op |-> "rebalancePortfolio"], rebalancePortfolio(Bot))

MonitorRiskLimits(env) ==
  /\ timers > 0
  /\ Step(env, [op |-> "monitorRiskLimits", positions |-> portfolio.positions],
          monitorRiskLimits(Bot))

\* The public methods, called on their own.  A caller of
\* generateAdvancedTradingSignal keeps the signal it is given.
GenerateSignal(env) ==
  /\ Len(signals) < MaxSignals
  /\ \E i \in 1..Len(AllTokens) :
       LET signal == generateAdvancedTradingSignal(Bot, AllTokens[i])
       IN  /\ signal # Null
           /\ signals' = Append(signals, signal)
           /\ Traced(env, [op |-> "generateAdvancedTradingSignal"])
           /\ UNCHANGED <<isRunning, settings, marketDataCache, technicalIndicators,
                          portfolio, tradeHistory, currentDailyLoss, timers,
                          strategyHistory, analyticsTrades, pending>>

\* executeAdvancedOrder(signals[i])
OrderCall(env, i) ==
  LET r == executeAdvancedOrder(Bot, signals[i])
  IN  /\ Within(env, r.s)
      /\ Commit(r.s)
      /\ signals' = [signals EXCEPT ![i] = r.signal]
      /\ UNCHANGED pending
      /\ Traced(env, [op |-> "executeAdvancedOrder", signal |-> signals[i],
                      admitted |-> passRiskChecks(Bot, signals[i])])

ExecuteAdvancedOrder(env) ==
  /\ signals # <<>>
  /\ \E i \in 1..Len(signals) : OrderCall(env, i)

\* executeSellOrder(tokenAddress, reason)
SellCall(env, tokenAddress) ==
  Step(env, [op |-> "executeSellOrder", tokenAddress |-> tokenAddress,
             held |-> PosGet(portfolio.positions, tokenAddress) # Null,
             cached |-> marketDataCache[tokenAddress] # Null],
       executeSellOrder(Bot, tokenAddress))

ExecuteSellOrder(env) ==
  /\ Addresses # {}
  /\ \E tokenAddress \in Addresses : SellCall(env, tokenAddress)

\* ------------------------------------------------------------ the bot at work

Next ==
  \/ UpdateSettings(MainEnv)
  \/ CollectMarketData(MainEnv)
  \/ UpdateTechnicalIndicators(MainEnv)
  \/ ExecuteFullTradingCycle(MainEnv)
  \/ RebalancePortfolio(MainEnv)
  \/ MonitorRiskLimits(MainEnv)
  \/ ExecuteSellOrder(MainEnv)

Spec == Init /\ [][Next]_vars

\* ------------------------------------------------------------ the risk monitor, pass by pass

\* The timers that feed the monitor, each monitorRiskLimits pass recorded
\* with the positions it found; the run may grow by the one record an exit
\* adds to two buys.
MonitorEnv ==
  [MainEnv EXCEPT !.trace = {"monitorRiskLimits"}, !.maxTrades = MaxTrades + 1]

NextMonitor ==
  \/ UpdateSettings(MonitorEnv)
  \/ CollectMarketData(MonitorEnv)
  \/ UpdateTechnicalIndicators(MonitorEnv)
  \/ ExecuteFullTradingCycle(MonitorEnv)
  \/ MonitorRiskLimits(MonitorEnv)

SpecMonitor == Init /\ [][NextMonitor]_vars

\* ------------------------------------------------------------ the seeded history

\* Draws of generateHistoricalData on either side of its thresholds: a
\* price change of +10%, +2% and -10%.
HistoricalSeeds ==
  {[strategy |-> "Technical Breakout", token |-> "token_7",
    entryPrice |-> Norm(1, 100), priceChange |-> c, confidence |-> I(80)] :
     c \in {Norm(1, 10), Norm(1, 50), Norm(-1, 10)}}

SpecSeeded == InitWith(HistoricalSeeds) /\ [][NextMonitor]_vars

\* ------------------------------------------------------------ switching the bot on and off

\* The cycles a timer starts.
Cycles ==
  {"collectMarketData", "updateTechnicalIndicators", "executeFullTradingCycle",
   "rebalancePortfolio", "monitorRiskLimits"}

\* A tick whose cycle throws (storage.getAllTokens() rejects, say) while the
\* bot is running; a stopped bot's handlers return before they can throw.
CycleThrows(env) ==
  /\ timers > 0
  /\ isRunning
  /\ \E cycle \in Cycles : Step(env, [op |-> "threw", cycle |-> cycle], caught(Bot))

\* The operator enables, disables, or changes maxInvestment alone; token A
\* is priced 1, 2 or not at all.
LifecycleEnv ==
  [fetched |-> Fetches({"none", "one", "two"}, {"none"}),
   draws |-> Draws({Rising, Flat}, {Rising}),
   updates |-> {[enabled |-> TRUE], [enabled |-> FALSE], [maxInvestment |-> I(200)]},
   maxTrades |-> MaxTrades,
   trace |-> {"threw"}]

NextLifecycle ==
  \/ UpdateSettings(LifecycleEnv)
  \/ CollectMarketData(LifecycleEnv)
  \/ UpdateTechnicalIndicators(LifecycleEnv)
  \/ ExecuteFullTradingCycle(LifecycleEnv)
  \/ RebalancePortfolio(LifecycleEnv)
  \/ MonitorRiskLimits(LifecycleEnv)
  \/ CycleThrows(LifecycleEnv)

SpecLifecycle == Init /\ [][NextLifecycle]_vars

\* ------------------------------------------------------------ orders, one call at a time

\* Token A alone is priced (1 or 2); the operator may also raise
\* maxInvestment to 200, which the 10% limit then rejects.
OrdersEnv ==
  [fetched |-> Fetches({"none", "one", "two"}, {"none"}),
   draws |-> Draws({Rising, Flat}, {Rising}),
   updates |-> {[enabled |-> TRUE], [maxInvestment |-> I(200)]},
   maxTrades |-> MaxTrades,
   trace |-> {"executeAdvancedOrder", "executeSellOrder"}]

NextOrders ==
  \/ UpdateSettings(OrdersEnv)
  \/ CollectMarketData(OrdersEnv)
  \/ UpdateTechnicalIndicators(OrdersEnv)
  \/ ExecuteFullTradingCycle(OrdersEnv)
  \/ MonitorRiskLimits(OrdersEnv)
  \/ GenerateSignal(OrdersEnv)
  \/ ExecuteAdvancedOrder(OrdersEnv)
  \/ ExecuteSellOrder(OrdersEnv)

SpecOrders == Init /\ [][NextOrders]_vars

\* ------------------------------------------------------------ a long losing run

\* Token A alone is priced, at 1 and at 0, and scores 85 at either price.
LossEnv ==
  [fetched |-> Fetches({"zero", "one"}, {"none"}),
   draws |-> Draws({Crossover}, {Crossover}),
   updates |-> {[enabled |-> TRUE]},
   maxTrades |-> MaxLossTrades,
   trace |-> {}]

NextLoss ==
  \/ UpdateSettings(LossEnv)
  \/ CollectMarketData(LossEnv)
  \/ UpdateTechnicalIndicators(LossEnv)
  \/ ExecuteFullTradingCycle(LossEnv)
  \/ MonitorRiskLimits(LossEnv)

SpecLoss == Init /\ [][NextLoss]_vars


\* ------------------------------------------------------------ orders under changing settings

\* Token A is priced 1 or 2; the operator may lower maxInvestment to 50
\* between a signal and its execution.
SizingEnv ==
  [fetched |-> Fetches({"one", "two"}, {"none"}),
   draws |-> Draws({Rising, Flat}, {Rising}),
   updates |-> {[enabled |-> TRUE], [maxInvestment |-> I(50)]},
   maxTrades |-> MaxTrades,
   trace |-> {"executeAdvancedOrder"}]

NextSizing ==
  \/ UpdateSettings(SizingEnv)
  \/ CollectMarketData(SizingEnv)
  \/ UpdateTechnicalIndicators(SizingEnv)
  \/ ExecuteFullTradingCycle(SizingEnv)
  \/ RebalancePortfolio(SizingEnv)
  \/ GenerateSignal(SizingEnv)
  \/ ExecuteAdvancedOrder(SizingEnv)

SpecSizing == Init /\ [][NextSizing]_vars

\* ------------------------------------------------------------ the status route

\* GET /api/trading/status
GetPortfolioStatus(env) ==
  /\ "getPortfolioStatus" \in env.trace
  /\ Step(env, [op |-> "getPortfolioStatus", isActive |-> isActive(Bot),
                settings |-> settings, portfolio |-> getPortfolioStatus(Bot)],
          Bot)

StatusEnv == [MainEnv EXCEPT !.trace = {"getPortfolioStatus"}]

NextStatus ==
  \/ UpdateSettings(StatusEnv)
  \/ CollectMarketData(StatusEnv)
  \/ UpdateTechnicalIndicators(StatusEnv)
  \/ ExecuteFullTradingCycle(StatusEnv)
  \/ RebalancePortfolio(StatusEnv)
  \/ MonitorRiskLimits(StatusEnv)
  \/ GetPortfolioStatus(StatusEnv)

SpecStatus == Init /\ [][NextStatus]_vars

\* ------------------------------------------------------------ the trading cycle, pass by pass

\* Either token may be priced; token B scores 95, 75 or 60 with the market.
CycleEnv ==
  [fetched |-> Fetches({"none", "one"}, {"none", "one"}),
   draws |-> Draws({Rising, Flat}, {Rising, Crossover, Flat}),
   updates |-> {[enabled |-> TRUE]},
   maxTrades |-> 2 * MaxTrades,
   trace |-> {"executeFullTradingCycle"}]

NextCycle ==
  \/ UpdateSettings(CycleEnv)
  \/ CollectMarketData(CycleEnv)
  \/ UpdateTechnicalIndicators(CycleEnv)
  \/ ExecuteFullTradingCycle(CycleEnv)

SpecCycle == Init /\ [][NextCycle]_vars

\* ------------------------------------------------------------ the ledger under any settings

\* Token A alone is priced, at 1 and at 2, in a rising market; the settings
\* route passes its body on unvalidated, here a negative maxInvestment.
LedgerEnv ==
  [fetched |-> Fetches({"one", "two"}, {"none"}),
   draws |-> Draws({Rising}, {Rising}),
   updates |-> {[enabled |-> TRUE], [maxInvestment |-> I(-2000)]},
   maxTrades |-> MaxTrades,
   trace |-> {}]

NextLedger ==
  \/ UpdateSettings(LedgerEnv)
  \/ CollectMarketData(LedgerEnv)
  \/ UpdateTechnicalIndicators(LedgerEnv)
  \/ ExecuteFullTradingCycle(LedgerEnv)
  \/ MonitorRiskLimits(LedgerEnv)

SpecLedger == Init /\ [][NextLedger]_vars

\* ------------------------------------------------------------ overlapping order executions

\* Executions of executeAdvancedOrder that may be suspended at once.
MaxOverlap == 2

\* Records the trade history may hold in a run of overlapping executions.
MaxRaceTrades == 22

\* Token A alone is priced, steadily at 1 in a rising market.
RaceEnv ==
  [fetched |-> Fetches({"one"}, {"none"}),
   draws |-> Draws({Rising}, {Rising}),
   updates |-> {[enabled |-> TRUE]},
   maxTrades |-> MaxRaceTrades,
   trace |-> {}]

\* A trading cycle calls executeAdvancedOrder(signal) for a candidate: the
\* call runs through the guard, the risk gate, calculatePositionSize and
\* placeBuyOrder, and is suspended at `await this.placeBuyOrder(...)`;
\* checked is the availableBalance its gate compared the amount with.
BeginOrder(env) ==
  /\ timers > 0
  /\ isRunning
  /\ Len(pending) < MaxOverlap
  /\ \E i \in 1..Len(AllTokens) :
       LET token == AllTokens[i]
           signal == generateAdvancedTradingSignal(Bot, token)
       IN  /\ marketDataCache[token.address] # Null
           /\ technicalIndicators[token.address] # Null
           /\ signal # Null
           /\ Gt(signal.confidence, I(75))
           /\ pending' =
                IF signal.signal # "BUY" \/ signal.executed THEN pending
                ELSE IF ~passRiskChecks(Bot, signal) THEN pending
                ELSE Append(pending,
                            [signal |-> signal, at |-> "placeBuyOrder",
                             checked |-> portfolio.availableBalance,
                             trade |-> placeBuyOrder(signal,
                                                     calculatePositionSize(Bot, signal))])
  /\ UNCHANGED <<isRunning, settings, marketDataCache, technicalIndicators,
                 portfolio, tradeHistory, currentDailyLoss, timers,
                 strategyHistory, analyticsTrades, signals, call>>

\* A suspended execution runs on to its next await: from placeBuyOrder
\* through updatePortfolioAfterBuy to setupAutomaticOrders, from there
\* through logTrade to recordTrade, and from there to its end.
ResumeOrder(env) ==
  \E k \in 1..Len(pending) :
    LET e == pending[k]
        rest == SubSeq(pending, 1, k - 1) \o SubSeq(pending, k + 1, Len(pending))
        s == CASE e.at = "placeBuyOrder" -> updatePortfolioAfterBuy(Bot, e.trade)
               [] e.at = "setupAutomaticOrders" ->
                    recordTrade(logTrade(Bot, e.trade), e.trade,
                                StrategyOf(e.signal), e.signal.confidence)
               [] OTHER -> Bot
    IN  /\ Within(env, s)
        /\ Commit(s)
        /\ pending' =
             CASE e.at = "placeBuyOrder" ->
                    [pending EXCEPT ![k].at = "setupAutomaticOrders"]
               [] e.at = "setupAutomaticOrders" ->
                    [pending EXCEPT ![k].at = "recordTrade"]
               [] OTHER -> rest
        /\ UNCHANGED <<signals, call>>

NextRace ==
  \/ UpdateSettings(RaceEnv)
  \/ CollectMarketData(RaceEnv)
  \/ UpdateTechnicalIndicators(RaceEnv)
  \/ BeginOrder(RaceEnv)
  \/ ResumeOrder(RaceEnv)

SpecRace == Init /\ [][NextRace]_vars

\* ------------------------------------------------------------ portfolio analytics

\* Days of performance history kept in the model (the code seeds 30).
MaxDays == 3

\* The metrics generateHistoricalData pushes for the drawn daily P&L values:
\* day i (from 1) carries portfolioValue 1000 + dayPnL * i.
generateHistoricalData(dayPnLs) ==
  [i \in 1..Len(dayPnLs) |->
     [totalPnL |-> dayPnLs[i],
      portfolioValue |-> Add(I(1000), Mul(dayPnLs[i], I(i)))]]

\* Array.prototype.slice(-n).
SliceLast(seq, n) ==
  SubSeq(seq, IF Len(seq) > n THEN Len(seq) - n + 1 ELSE 1, Len(seq))

RECURSIVE SumReturns(_)
SumReturns(dailyReturns) ==
  IF dailyReturns = <<>> THEN I(0)
  ELSE Add(SumReturns(SubSeq(dailyReturns, 1, Len(dailyReturns) - 1)),
           dailyReturns[Len(dailyReturns)])

\* The max-drawdown loop from its k-th iteration on.
RECURSIVE DrawdownScan(_, _, _, _, _)
DrawdownScan(dailyReturns, k, peak, maxDrawdown, runningValue) ==
  IF k > Len(dailyReturns) THEN maxDrawdown
  ELSE LET value == Add(runningValue, dailyReturns[k])
           top == IF Gt(value, peak) THEN value ELSE peak
           drawdown == Mul(Div(Sub(top, value), top), I(100))
       IN  DrawdownScan(dailyReturns, k + 1, top,
                        IF Gt(drawdown, maxDrawdown) THEN drawdown ELSE maxDrawdown,
                        value)

\* generatePortfolioAnalytics() on the given performanceHistory, without the
\* square-root and random fields (sharpeRatio, volatility, beta, alpha).
generatePortfolioAnalytics(performanceHistory) ==
  LET recentMetrics == SliceLast(performanceHistory, 30)
      dailyReturns == [i \in 1..Len(recentMetrics) |-> recentMetrics[i].totalPnL]
      last == IF recentMetrics = <<>> THEN I(0)
              ELSE recentMetrics[Len(recentMetrics)].portfolioValue
      totalValue == IF Truthy(last) THEN last ELSE I(1000)
      lastReturn == IF dailyReturns = <<>> THEN I(0)
                    ELSE dailyReturns[Len(dailyReturns)]
  IN  [totalValue |-> totalValue,
       dailyPnL |-> IF Truthy(lastReturn) THEN lastReturn ELSE I(0),
       weeklyPnL |-> SumReturns(SliceLast(dailyReturns, 7)),
       monthlyPnL |-> SumReturns(dailyReturns),
       maxDrawdown |-> DrawdownScan(dailyReturns, 1, totalValue, I(0), I(1000))]

\* ------------------------------------------------------------ trade and strategy analytics

\* t.pnl || 0
PnlOrZero(t) == IF t.pnl = Null THEN I(0) ELSE IF Truthy(t.pnl) THEN t.pnl ELSE I(0)

\* reduce((sum, t) => sum + (t.pnl || 0), 0)
RECURSIVE SumPnl(_)
SumPnl(trades) ==
  IF trades = <<>> THEN I(0)
  ELSE Add(SumPnl(SubSeq(trades, 1, Len(trades) - 1)),
           PnlOrZero(trades[Len(trades)]))

\* Math.max(...values) of a non-empty array.
MaxOf(values) ==
  LET k == CHOOSE i \in 1..Len(values) :
             \A j \in 1..Len(values) : Le(values[j], values[i])
  IN  values[k]

\* The keys of a Map filled record by record with trade.strategyName: the
\* names in the order they first appear.
RECURSIVE StrategyNames(_)
StrategyNames(trades) ==
  IF trades = <<>> THEN <<>>
  ELSE LET seen == StrategyNames(SubSeq(trades, 1, Len(trades) - 1))
           name == trades[Len(trades)].strategyName
       IN  IF \E k \in 1..Len(seen) : seen[k] = name THEN seen
           ELSE Append(seen, name)

TradesOf(trades, name) == SelectSeq(trades, LAMBDA t : t.strategyName = name)

\* A filter that lets the open records through.
completedTradesAll(s) == s.strategyHistory

completedTrades(s) == SelectSeq(s.strategyHistory, LAMBDA t : t.outcome # "ACTIVE")

\* The loop over strategyStats.entries() that picks the best and the worst.
RECURSIVE BestWorst(_, _, _)
BestWorst(trades, names, acc) ==
  IF names = <<>> THEN acc
  ELSE LET pnl == SumPnl(TradesOf(trades, Head(names)))
           a1 == IF Gt(pnl, acc.bestPnL)
                 THEN [acc EXCEPT !.bestPnL = pnl, !.bestStrategy = Head(names)]
                 ELSE acc
           a2 == IF Lt(pnl, a1.worstPnL)
                 THEN [a1 EXCEPT !.worstPnL = pnl, !.worstStrategy = Head(names)]
                 ELSE a1
       IN  BestWorst(trades, Tail(names), a2)

\* generateTradeAnalysis(); avgTradeDuration is left out (the clock).
generateTradeAnalysis(s) ==
  LET completed == completedTrades(s)
      winningTrades == SelectSeq(completed, LAMBDA t : t.outcome = "WIN")
      losingTrades == SelectSeq(completed, LAMBDA t : t.outcome = "LOSS")
      wins == [i \in 1..Len(winningTrades) |-> PnlOrZero(winningTrades[i])]
      losses == [i \in 1..Len(losingTrades) |-> Abs(PnlOrZero(losingTrades[i]))]
      avgWin == IF Len(wins) > 0
                THEN Div(SumReturns(wins), I(Len(wins))) ELSE I(0)
      avgLoss == IF Len(losses) > 0
                 THEN Div(SumReturns(losses), I(Len(losses))) ELSE I(0)
      picked == BestWorst(completed, StrategyNames(completed),
                          [bestStrategy |-> "N/A", worstStrategy |-> "N/A",
                           bestPnL |-> <<-1, 0>>, worstPnL |-> <<1, 0>>])
  IN  [totalTrades |-> Len(completed),
       winningTrades |-> Len(winningTrades),
       losingTrades |-> Len(losingTrades),
       totalPnL |-> SumPnl(completed),
       winRate |-> IF Len(completed) > 0
                   THEN Mul(Div(I(Len(winningTrades)), I(Len(completed))), I(100))
                   ELSE I(0),
       avgWin |-> avgWin,
       avgLoss |-> avgLoss,
       profitFactor |-> IF Gt(avgLoss, I(0)) THEN Div(avgWin, avgLoss) ELSE I(0),
       largestWin |-> IF Len(wins) > 0 THEN MaxOf(wins) ELSE I(0),
       largestLoss |-> IF Len(losses) > 0 THEN MaxOf(losses) ELSE I(0),
       bestStrategy |-> picked.bestStrategy,
       worstStrategy |-> picked.worstStrategy]

\* The strategy-specific drawdown loop from its k-th trade on.
RECURSIVE StrategyDrawdown(_, _, _, _, _)
StrategyDrawdown(trades, k, peak, maxDrawdown, running) ==
  IF k > Len(trades) THEN maxDrawdown
  ELSE LET value == Add(running, PnlOrZero(trades[k]))
           top == IF Gt(value, peak) THEN value ELSE peak
           drawdown == IF Gt(top, I(0))
                       THEN Mul(Div(Sub(top, value), top), I(100)) ELSE I(0)
       IN  StrategyDrawdown(trades, k + 1, top,
                            IF Gt(drawdown, maxDrawdown) THEN drawdown ELSE maxDrawdown,
                            value)

\* The entry analytics.push() adds for one strategy.
StrategyEntry(name, trades) ==
  LET wins == Len(SelectSeq(trades, LAMBDA t : t.outcome = "WIN"))
      winRate == Mul(Div(I(wins), I(Len(trades))), I(100))
      avgPnL == Div(SumPnl(trades), I(Len(trades)))
  IN  [name |-> name, totalTrades |-> Len(trades), winRate |-> winRate,
       avgPnL |-> avgPnL,
       maxDrawdown |-> StrategyDrawdown(trades, 1, I(0), I(0), I(0)),
       profitability |-> IF Gt(avgPnL, I(0)) THEN Mul(avgPnL, winRate) ELSE I(0),
       reliability |-> Div(winRate, I(100))]

\* A sort that leaves the entries in the order of the Map.
Unsorted(analytics) == analytics

\* Array.prototype.sort((a, b) => b.profitability - a.profitability): a
\* stable sort, an entry moving ahead of those the comparator puts after it.
RECURSIVE SortByProfitability(_)
SortByProfitability(analytics) ==
  IF analytics = <<>> THEN <<>>
  ELSE LET sorted == SortByProfitability(SubSeq(analytics, 1, Len(analytics) - 1))
           x == analytics[Len(analytics)]
           after == {k \in 1..Len(sorted) :
                       Gt(Sub(x.profitability, sorted[k].profitability), I(0))}
           at == IF after = {} THEN Len(sorted) + 1
                 ELSE CHOOSE k \in after : \A j \in after : k <= j
       IN  SubSeq(sorted, 1, at - 1) \o <<x>> \o SubSeq(sorted, at, Len(sorted))

generateStrategyAnalytics(s) ==
  LET completed == completedTrades(s)
      names == StrategyNames(completed)
      analytics == [i \in 1..Len(names) |->
                      StrategyEntry(names[i], TradesOf(completed, names[i]))]
  IN  SortByProfitability(analytics)

\* ------------------------------------------------------------ the analytics engine, call by call

\* Trades recorded by the engine after its seeding.
MaxRecords == 3

\* Seeds of two strategies: +10%, -10% and +2%.
AnalyticsSeeds ==
  {[strategy |-> "Technical Breakout", token |-> "token_7",
    entryPrice |-> Norm(1, 100), priceChange |-> Norm(1, 10), confidence |-> I(80)],
   [strategy |-> "Volume Spike", token |-> "token_7",
    entryPrice |-> Norm(1, 100), priceChange |-> Norm(-1, 10), confidence |-> I(80)],
   [strategy |-> "Volume Spike", token |-> "token_7",
    entryPrice |-> Norm(1, 100), priceChange |-> Norm(1, 50), confidence |-> I(80)]}

\* recordTrade(trade, strategy, confidence, reason) as executeAdvancedOrder
\* calls it: a buy of token A at price 1 under the signal's first reason.
RecordTrade ==
  /\ call = NoCall
  /\ Len(analyticsTrades) < MaxRecords
  /\ \E strategy \in {"Bullish trend", "RSI oversold"} :
       Commit(recordTrade(Bot,
                          [tokenAddress |-> "A", action |-> "BUY",
                           amount |-> I(80), price |-> I(1)],
                          strategy, I(80)))
  /\ UNCHANGED <<signals, pending, call>>

\* updateTradeExit(tokenAddress, exitPrice, exitTime): exits at -50%, 0%
\* and +100%.
UpdateTradeExit ==
  /\ call = NoCall
  /\ \E exitPrice \in {Norm(1, 2), I(1), I(2)} :
       Commit(updateTradeExit(Bot, "A", exitPrice))
  /\ UNCHANGED <<signals, pending, call>>

\* GET /api/analytics/performance
GenerateTradeAnalysis ==
  /\ call = NoCall
  /\ call' = [op |-> "generateTradeAnalysis", result |-> generateTradeAnalysis(Bot)]
  /\ UNCHANGED <<isRunning, settings, marketDataCache, technicalIndicators,
                 portfolio, tradeHistory, currentDailyLoss, timers,
                 strategyHistory, analyticsTrades, signals, pending>>

\* GET /api/analytics/strategies
GenerateStrategyAnalytics ==
  /\ call = NoCall
  /\ call' = [op |-> "generateStrategyAnalytics",
              result |-> generateStrategyAnalytics(Bot)]
  /\ UNCHANGED <<isRunning, settings, marketDataCache, technicalIndicators,
                 portfolio, tradeHistory, currentDailyLoss, timers,
                 strategyHistory, analyticsTrades, signals, pending>>

NextAnalytics ==
  \/ RecordTrade
  \/ UpdateTradeExit
  \/ GenerateTradeAnalysis
  \/ GenerateStrategyAnalytics

SpecAnalytics == InitWith(AnalyticsSeeds) /\ [][NextAnalytics]_vars

\* ------------------------------------------------------------ single calls

\* Buys the ledger is given in a row.
MaxBuys == 3

\* Token metadata the scorers are asked about: around each threshold of the
\* default settings.
ScoredTokens ==
  [address : {"A"}, liquidity : {I(25000), I(20000), I(5000)},
   holders : {I(100), I(75)}, volume : {I(20000)}, priceChange : {I(0)},
   socialMentions : {I(200), I(100), I(30)},
   ageMinutes : {I(30), I(60), I(800)}]

SimplyScoredTokens ==
  [address : {"A"}, liquidity : {I(25000), I(20000), I(5000)},
   holders : {I(110), I(75)}, volume : {I(20000), I(6000), I(1000)},
   priceChange : {I(25), I(15), I(0), I(-15)},
   socialMentions : {I(200), I(30), I(10)},
   ageMinutes : {I(30), I(60), I(800)}]

ScoredSnapshots ==
  {Null} \cup [price : {Norm(11, 10)}, volume24h : {I(20000), I(0)},
               priceChange24h : {I(5)}]

ScoredIndicators ==
  {Null} \cup [rsi : {I(25), I(50), I(75)},
               macd : {[macd |-> Norm(4, 100), signal |-> Norm(1, 100),
                        histogram |-> Norm(1, 100)],
                       [macd |-> Norm(-4, 100), signal |-> Norm(1, 100),
                        histogram |-> Norm(-1, 100)]},
               sma20 : {Norm(105, 100), Norm(12, 10)}, sma50 : {I(1)},
               volumeProfile : {I(2)}]

ScoredSettings ==
  {DefaultSettings,
   [DefaultSettings EXCEPT !.socialSentimentWeight = I(1), !.minHolders = I(80)],
   [DefaultSettings EXCEPT !.socialSentimentWeight = I(-1)],
   [DefaultSettings EXCEPT !.socialSentimentWeight = <<1, 0>>]}

\* generateAdvancedTradingSignal(token) with the token's cache and indicator
\* entries and the settings as drawn.
CallGenerateAdvancedTradingSignal ==
  /\ call = NoCall
  /\ \E token \in ScoredTokens, marketData \in ScoredSnapshots,
        indicators \in ScoredIndicators, stg \in ScoredSettings :
       LET s == [Bot EXCEPT !.settings = stg,
                            !.marketDataCache[token.address] = marketData,
                            !.technicalIndicators[token.address] = indicators]
       IN  call' = [op |-> "generateAdvancedTradingSignal", token |-> token,
                    marketData |-> marketData, indicators |-> indicators,
                    settings |-> stg,
                    result |-> generateAdvancedTradingSignal(s, token)]
  /\ UNCHANGED <<isRunning, settings, marketDataCache, technicalIndicators,
                 portfolio, tradeHistory, currentDailyLoss, timers,
                 strategyHistory, analyticsTrades, signals, pending>>

CallGenerateTradingSignal ==
  /\ call = NoCall
  /\ \E token \in SimplyScoredTokens, stg \in ScoredSettings :
       call' = [op |-> "generateTradingSignal", token |-> token, settings |-> stg,
                result |-> generateTradingSignal([Bot EXCEPT !.settings = stg], token)]
  /\ UNCHANGED <<isRunning, settings, marketDataCache, technicalIndicators,
                 portfolio, tradeHistory, currentDailyLoss, timers,
                 strategyHistory, analyticsTrades, signals, pending>>

\* passRiskChecks(signal) on a bot whose fields are as drawn.
CallPassRiskChecks ==
  /\ call = NoCall
  /\ \E loss \in {I(0), I(499), I(500), I(501)},
        balance \in {I(1000), I(90), I(0)},
        totalValue \in {I(1000), I(900)},
        marketData \in {Null} \cup [price : {I(1)}, volume24h : {I(20000)},
                                     priceChange24h : {I(5), I(50), I(51), I(-51)}],
        maxInvestment \in {I(100), I(50)},
        confidence \in {I(60), I(95)} :
       LET s == [Bot EXCEPT !.currentDailyLoss = loss,
                            !.portfolio.availableBalance = balance,
                            !.portfolio.totalValue = totalValue,
                            !.marketDataCache["A"] = marketData,
                            !.settings.maxInvestment = maxInvestment]
           signal == [tokenAddress |-> "A", signal |-> "BUY",
                      confidence |-> confidence, reason |-> <<>>,
                      price |-> I(1), executed |-> FALSE]
       IN  call' = [op |-> "passRiskChecks", currentDailyLoss |-> loss,
                    availableBalance |-> balance, totalValue |-> totalValue,
                    marketData |-> marketData, maxInvestment |-> maxInvestment,
                    confidence |-> confidence,
                    result |-> passRiskChecks(s, signal)]
  /\ UNCHANGED <<isRunning, settings, marketDataCache, technicalIndicators,
                 portfolio, tradeHistory, currentDailyLoss, timers,
                 strategyHistory, analyticsTrades, signals, pending>>

\* Daily P&L values (Math.random() - 0.45) * 200 can take.
DayPnLs == {I(-50), I(0), I(50), I(100)}

\* generatePortfolioAnalytics() on a history seeded from the drawn values.
CallGeneratePortfolioAnalytics ==
  /\ call = NoCall
  /\ \E n \in 1..MaxDays :
       \E dayPnLs \in [1..n -> DayPnLs] :
         LET performanceHistory == generateHistoricalData(dayPnLs)
         IN  call' = [op |-> "generatePortfolioAnalytics",
                      performanceHistory |-> performanceHistory,
                      result |-> generatePortfolioAnalytics(performanceHistory)]
  /\ UNCHANGED <<isRunning, settings, marketDataCache, technicalIndicators,
                 portfolio, tradeHistory, currentDailyLoss, timers,
                 strategyHistory, analyticsTrades, signals, pending>>

BuyTrades ==
  [tokenAddress : Addresses, action : {"BUY"}, amount : {I(50), I(100)},
   price : {I(0), I(2), I(4)}]

\* updatePortfolioAfterBuy(trade), one buy after another; call.buys is the
\* trades given so far.
CallUpdatePortfolioAfterBuy ==
  /\ call.op \in {"none", "updatePortfolioAfterBuy"}
  /\ LET buys == IF call.op = "none" THEN <<>> ELSE call.buys
     IN  /\ Len(buys) < MaxBuys
         /\ \E trade \in BuyTrades :
              /\ Commit(updatePortfolioAfterBuy(Bot, trade))
              /\ call' = [op |-> "updatePortfolioAfterBuy",
                          buys |-> Append(buys, trade)]
  /\ UNCHANGED <<signals, pending>>

NextFn ==
  \/ CallGenerateAdvancedTradingSignal
  \/ CallGenerateTradingSignal
  \/ CallPassRiskChecks
  \/ CallGeneratePortfolioAnalytics
  \/ CallUpdatePortfolioAfterBuy

SpecFn == Init /\ [][NextFn]_vars


\* ------------------------------------------------------------ properties

\* C1: every non-null signal of the primary scorer has confidence in
\* [60, 95], and every non-null signal of the alternate scorer has
\* confidence in [50, 95].
C1_ConfidenceInRange ==
  /\ (call.op = "generateAdvancedTradingSignal" /\ call.result # Null)
       => /\ Ge(call.result.confidence, I(60))
          /\ Le(call.result.confidence, I(95))
  /\ (call.op = "generateTradingSignal" /\ call.result # Null)
       => /\ Ge(call.result.confidence, I(50))
          /\ Le(call.result.confidence, I(95))

\* The primary scorer accumulated more than 95 and emitted 95.
C1_Witness ==
  /\ call.op = "generateAdvancedTradingSignal"
  /\ call.result # Null
  /\ call.marketData # Null /\ call.indicators # Null
  /\ Gt(AdvancedScore(call.settings, call.token, call.marketData,
                      call.indicators).confidence, I(95))
  /\ call.result.confidence = I(95)

RECURSIVE SumAmount(_, _)
SumAmount(buys, addr) ==
  IF buys = <<>> THEN I(0)
  ELSE Add(IF Head(buys).tokenAddress = addr THEN Head(buys).amount ELSE I(0),
           SumAmount(Tail(buys), addr))

RECURSIVE SumCost(_, _)
SumCost(buys, addr) ==
  IF buys = <<>> THEN I(0)
  ELSE Add(IF Head(buys).tokenAddress = addr
           THEN Mul(Head(buys).amount, Head(buys).price) ELSE I(0),
           SumCost(Tail(buys), addr))

Entries(positions, addr) ==
  {i \in 1..Len(positions) : positions[i].tokenAddress = addr}

\* C2: after buys (a1,p1),...,(an,pn) of one token with no sell in between,
\* the token has exactly one position, of amount a1+...+an and avgPrice
\* (a1*p1+...+an*pn)/(a1+...+an); a token never bought has none.
C2_WeightedAverageCost ==
  call.op = "updatePortfolioAfterBuy" =>
    \A addr \in Addresses :
      IF \E i \in 1..Len(call.buys) : call.buys[i].tokenAddress = addr
      THEN /\ Cardinality(Entries(portfolio.positions, addr)) = 1
           /\ PosGet(portfolio.positions, addr).amount = SumAmount(call.buys, addr)
           /\ PosGet(portfolio.positions, addr).avgPrice =
                Div(SumCost(call.buys, addr), SumAmount(call.buys, addr))
      ELSE Entries(portfolio.positions, addr) = {}

\* 100 at price 2, then 50 at price 4: amount 150, avgPrice 400/150.
C2_Witness ==
  /\ call.op = "updatePortfolioAfterBuy"
  /\ call.buys = <<[tokenAddress |-> "A", action |-> "BUY", amount |-> I(100),
                    price |-> I(2)],
                   [tokenAddress |-> "A", action |-> "BUY", amount |-> I(50),
                    price |-> I(4)]>>
  /\ PosGet(portfolio.positions, "A").amount = I(150)
  /\ PosGet(portfolio.positions, "A").avgPrice = Norm(400, 150)

\* C3: passRiskChecks returns true exactly when the daily loss is below
\* 500, the position size maxInvestment*confidence/100 is at most the
\* available balance and at most 10% of totalValue, and the token has no
\* snapshot or |priceChange24h| <= 50.
C3_RiskGate ==
  call.op = "passRiskChecks" =>
    LET size == Div(Mul(call.maxInvestment, call.confidence), I(100))
    IN  call.result <=>
          /\ Lt(call.currentDailyLoss, I(500))
          /\ Le(size, call.availableBalance)
          /\ Le(Mul(size, I(10)), call.totalValue)
          /\ \/ call.marketData = Null
             \/ /\ Le(call.marketData.priceChange24h, I(50))
                /\ Ge(call.marketData.priceChange24h, I(-50))

\* The accumulator is at the limit, everything else would pass, and the
\* gate rejects.
C3_Witness ==
  /\ call.op = "passRiskChecks"
  /\ call.currentDailyLoss = I(500)
  /\ call.availableBalance = I(1000) /\ call.totalValue = I(1000)
  /\ call.marketData = Null
  /\ ~call.result

\* C4: once forced exits have realized losses of 500 or more (here: the
\* realized total itself is -500 or less), no step applies a buy.
C4_NoBuyAfterDailyLoss ==
  [][Le(portfolio.totalProfit, I(-500))
       => Len(analyticsTrades') = Len(analyticsTrades)]_vars

\* C5: a second rebalancePortfolio right after a first, nothing else having
\* changed, leaves totalValue and every position's unrealizedPnL as the
\* first left them.
C5_RevalueIdempotent ==
  LET once == rebalancePortfolio(Bot)
      twice == rebalancePortfolio(once)
  IN  /\ twice.portfolio.totalValue = once.portfolio.totalValue
      /\ Len(twice.portfolio.positions) = Len(once.portfolio.positions)
      /\ \A i \in 1..Len(once.portfolio.positions) :
           twice.portfolio.positions[i].unrealizedPnL =
             once.portfolio.positions[i].unrealizedPnL

\* A running bot just revalued: a position carries a P&L that is not 0, the
\* total is no longer 1000, and a second pass is what comes next.
C5_Witness ==
  /\ isRunning
  /\ portfolio = rebalancePortfolio(Bot).portfolio
  /\ portfolio.totalValue # I(1000)
  /\ \E i \in 1..Len(portfolio.positions) :
       /\ marketDataCache[portfolio.positions[i].tokenAddress] # Null
       /\ IsFinite(portfolio.positions[i].unrealizedPnL)
       /\ portfolio.positions[i].unrealizedPnL # I(0)

\* C6: with stopLoss% > 0 and takeProfit% > 0, no open position has a cached
\* price that is both <= its stop-loss price and >= its take-profit price.
C6_StopAndTakeExclusive ==
  (Gt(settings.stopLoss, I(0)) /\ Gt(settings.takeProfit, I(0))) =>
    \A i \in 1..Len(portfolio.positions) :
      LET position == portfolio.positions[i]
          marketData == marketDataCache[position.tokenAddress]
      IN  marketData # Null =>
            ~ /\ Le(marketData.price, stopLossPrice(settings, position))
              /\ Ge(marketData.price, takeProfitPrice(settings, position))

\* C7 as stated: every non-null signal of the primary scorer is a BUY.
C7_NeverHold ==
  (call.op = "generateAdvancedTradingSignal" /\ call.result # Null)
    => call.result.signal = "BUY"

\* C7, amended: a non-null signal of the primary scorer is a BUY exactly
\* when its confidence is above 70, and a HOLD when it is 60 to 70.
C7_BuyAbove70 ==
  (call.op = "generateAdvancedTradingSignal" /\ call.result # Null)
    => /\ call.result.signal \in {"BUY", "HOLD"}
       /\ call.result.signal = "BUY" <=> Gt(call.result.confidence, I(70))
       /\ call.result.signal = "HOLD" <=>
            (Ge(call.result.confidence, I(60)) /\ Le(call.result.confidence, I(70)))

\* The primary scorer emitted a HOLD.
C7_Witness ==
  /\ call.op = "generateAdvancedTradingSignal"
  /\ call.result # Null
  /\ call.result.signal = "HOLD"

\* The portfolio, the trade history and the analytics history.
books == <<portfolio, tradeHistory, strategyHistory, analyticsTrades>>

\* C8: a signal's executed flag never goes back to false; a call that
\* changes the books is a call on a signal not yet executed, which it marks
\* executed; a call on an executed signal changes none of them.
C8_ExecutedOnce ==
  [][\A i \in 1..Len(signals) :
       /\ signals[i].executed => (Len(signals') >= i /\ signals'[i].executed)
       /\ OrderCall(OrdersEnv, i) =>
            /\ signals[i].executed => UNCHANGED books
            /\ books' # books => (~signals[i].executed /\ signals'[i].executed)]_vars

\* executeAdvancedOrder has been called on a signal that was executed
\* already, and the position its one buy opened is there.
C8_Witness ==
  /\ call.op = "executeAdvancedOrder"
  /\ call.signal.executed
  /\ call.admitted
  /\ PosGet(portfolio.positions, call.signal.tokenAddress) # Null

\* A call of executeAdvancedOrder that applies a buy.
BuyCall(i) ==
  /\ OrderCall(OrdersEnv, i)
  /\ signals[i].signal = "BUY"
  /\ ~signals[i].executed
  /\ passRiskChecks(Bot, signals[i])

\* C9: a buy takes the trade amount off availableBalance, adds one to
\* activeTrades and appends the trade to the trade history once.
C9_BuyBookedOnce ==
  [][\A i \in 1..Len(signals) :
       BuyCall(i) =>
         LET amount == Div(Mul(settings.maxInvestment, signals[i].confidence), I(100))
         IN  /\ portfolio'.availableBalance = Sub(portfolio.availableBalance, amount)
             /\ portfolio'.activeTrades = portfolio.activeTrades + 1
             /\ tradeHistory' =
                  Append(tradeHistory,
                         [tokenAddress |-> signals[i].tokenAddress, action |-> "BUY",
                          amount |-> amount, price |-> signals[i].price])]_vars

\* C10: executeSellOrder on a token with a position (amount a, avgPrice
\* v > 0) and a cached price s credits a + pnl, pnl = (s - v)*(a/v), adds
\* pnl to totalProfit, takes one off activeTrades, deletes the position and appends
\* one SELL record; with no position or no snapshot it changes nothing.
C10_SellBooks ==
  [][\A addr \in Addresses :
       SellCall(OrdersEnv, addr) =>
         LET position == PosGet(portfolio.positions, addr)
             marketData == marketDataCache[addr]
         IN  IF position = Null \/ marketData = Null
             THEN UNCHANGED <<books, isRunning, settings, marketDataCache,
                              technicalIndicators, currentDailyLoss, signals>>
             ELSE Gt(position.avgPrice, I(0)) =>
                    LET a == position.amount
                        pnl == Mul(Sub(marketData.price, position.avgPrice),
                                   Div(a, position.avgPrice))
                    IN  /\ portfolio'.availableBalance =
                             Add(portfolio.availableBalance, Add(a, pnl))
                        /\ portfolio'.totalProfit = Add(portfolio.totalProfit, pnl)
                        /\ portfolio'.activeTrades = portfolio.activeTrades - 1
                        /\ Entries(portfolio'.positions, addr) = {}
                        /\ Len(portfolio'.positions) = Len(portfolio.positions) - 1
                        /\ tradeHistory' =
                             Append(tradeHistory,
                                    [tokenAddress |-> addr, action |-> "SELL",
                                     amount |-> a, price |-> marketData.price])]_vars

\* executeSellOrder has just exited a position at a price other than its
\* average: the last record is its SELL and the position is gone.
C10_Witness ==
  /\ call.op = "executeSellOrder"
  /\ call.held /\ call.cached
  /\ tradeHistory # <<>>
  /\ tradeHistory[Len(tradeHistory)].action = "SELL"
  /\ tradeHistory[Len(tradeHistory)].tokenAddress = call.tokenAddress
  /\ PosGet(portfolio.positions, call.tokenAddress) = Null
  /\ portfolio.totalProfit # I(0)


\* Whether the cached price of a position's token meets its stop-loss or
\* its take-profit condition.
Triggers(stg, position, marketData) ==
  \/ Le(marketData.price,
        Mul(position.avgPrice, Sub(I(1), Div(stg.stopLoss, I(100)))))
  \/ Ge(marketData.price,
        Mul(position.avgPrice, Add(I(1), Div(stg.takeProfit, I(100)))))

\* C11: after a monitorRiskLimits pass of a running bot, no remaining
\* position whose token has a cached price meets the stop-loss or the
\* take-profit condition, and every position that met neither, or whose
\* token has no snapshot, is as it was.
C11_MonitorClearsTriggers ==
  [][(MonitorRiskLimits(MonitorEnv) /\ isRunning) =>
       /\ \A i \in 1..Len(portfolio'.positions) :
            LET position == portfolio'.positions[i]
                marketData == marketDataCache[position.tokenAddress]
            IN  marketData # Null => ~Triggers(settings, position, marketData)
       /\ \A i \in 1..Len(portfolio.positions) :
            LET position == portfolio.positions[i]
                marketData == marketDataCache[position.tokenAddress]
            IN  (marketData = Null \/ ~Triggers(settings, position, marketData))
                  => PosGet(portfolio'.positions, position.tokenAddress) = position]_vars

\* A pass has just run over two positions: it exited one and kept the other.
C11_Witness ==
  /\ call.op = "monitorRiskLimits"
  /\ isRunning
  /\ Len(call.positions) = 2
  /\ Len(portfolio.positions) = 1
  /\ marketDataCache[portfolio.positions[1].tokenAddress] # Null
  /\ \E i \in 1..2 : call.positions[i] = portfolio.positions[1]


\* The tag the exit rule gives a P&L percentage.
ExitTag(pnlPercentage) ==
  IF Gt(pnlPercentage, I(5)) THEN "WIN"
  ELSE IF Lt(pnlPercentage, I(-5)) THEN "LOSS" ELSE "BREAKEVEN"

\* C12: every strategy record whose outcome is not ACTIVE, seeded or closed
\* by updateTradeExit, is tagged WIN exactly when its pnlPercentage > 5,
\* LOSS exactly when < -5, and BREAKEVEN otherwise.
C12_OutcomeFollowsExitRule ==
  \A i \in 1..Len(strategyHistory) :
    strategyHistory[i].outcome # "ACTIVE" =>
      strategyHistory[i].outcome = ExitTag(strategyHistory[i].pnlPercentage)


\* C13: executeAdvancedOrder on a signal that is not a BUY, or that the risk
\* gate rejects, returns with the portfolio, the trade history and the
\* analytics history unchanged and the signal as it was (executed stays
\* false).
C13_RejectedSignalDropped ==
  [][\A i \in 1..Len(signals) :
       (/\ OrderCall(OrdersEnv, i)
        /\ (signals[i].signal # "BUY" \/ ~passRiskChecks(Bot, signals[i])))
         => /\ UNCHANGED books
            /\ signals' = signals
            /\ ~signals[i].executed => ~signals'[i].executed]_vars

\* The gate has just rejected a BUY not yet executed, and the signal is
\* still unexecuted.
C13_Witness ==
  /\ call.op = "executeAdvancedOrder"
  /\ call.signal.signal = "BUY"
  /\ ~call.signal.executed
  /\ ~call.admitted
  /\ \E i \in 1..Len(signals) : signals[i] = call.signal


\* A tick of one of the five timers.
TimerTick ==
  \/ CollectMarketData(LifecycleEnv)
  \/ UpdateTechnicalIndicators(LifecycleEnv)
  \/ ExecuteFullTradingCycle(LifecycleEnv)
  \/ RebalancePortfolio(LifecycleEnv)
  \/ MonitorRiskLimits(LifecycleEnv)

\* C14: while the bot is stopped, a collectMarketData,
\* updateTechnicalIndicators, executeFullTradingCycle, rebalancePortfolio or
\* monitorRiskLimits that begins leaves the market-data cache, the indicator
\* map, the portfolio and the trade history unchanged.
C14_StoppedTimersIdle ==
  [][(~isRunning /\ TimerTick) =>
       UNCHANGED <<marketDataCache, technicalIndicators, portfolio, tradeHistory>>]_vars

\* The bot is stopped with its timers registered, holding a position whose
\* token is cached at a price the monitor would exit at, and with the last
\* rebalance out of date.
C14_Witness ==
  /\ ~isRunning
  /\ timers > 0
  /\ \E i \in 1..Len(portfolio.positions) :
       LET position == portfolio.positions[i]
           marketData == marketDataCache[position.tokenAddress]
       IN  /\ marketData # Null
           /\ technicalIndicators[position.tokenAddress] # Null
           /\ Triggers(settings, position, marketData)
  /\ portfolio.totalValue = I(1000)

\* C15: after every updateSettings call on a fresh bot, isRunning equals
\* settings.enabled, and so isActive() equals settings.enabled.
C15_RunningIffEnabled ==
  /\ isRunning = settings.enabled
  /\ isActive(Bot) = settings.enabled

\* The bot was enabled, disabled and enabled again, and maxInvestment was
\* changed by an update that left enabled out.
C15_Witness ==
  /\ isRunning
  /\ settings.enabled
  /\ timers = 2
  /\ settings.maxInvestment = I(200)

\* C17: an exception in a scheduled cycle is caught: isRunning stays true,
\* the timers stay registered, the failed cycle has changed nothing and is
\* not run again by the failure, and the next tick finds the bot running
\* with its timers.
C17_CycleFailureKeepsScheduler ==
  [][CycleThrows(LifecycleEnv) =>
       /\ isRunning' /\ timers' = timers /\ timers' > 0
       /\ UNCHANGED <<settings, marketDataCache, technicalIndicators, portfolio,
                      tradeHistory, currentDailyLoss, strategyHistory,
                      analyticsTrades>>]_vars

\* A trading cycle has just thrown on a running bot that holds a position.
C17_Witness ==
  /\ call.op = "threw"
  /\ call.cycle = "executeFullTradingCycle"
  /\ isRunning
  /\ timers > 0
  /\ portfolio.positions # <<>>


\* Neither source gives a price for the token: Jupiter answers nothing, and
\* DexScreener answers nothing or a pair without a price.
NoPrice(o) ==
  /\ JupiterAnswer(o) = Null
  /\ \/ DexScreenerAnswer(o) = Null
     \/ ~Truthy(DexScreenerAnswer(o).price)

\* C16: a token whose price lookup fails or returns no value during
\* collectMarketData is skipped: its cache entry is left as it was, while
\* the other tokens of the cycle are still refreshed.
C16_FailedLookupSkipsToken ==
  [][\A oA \in {"none", "zero", "one", "two"}, oB \in {"none", "one"},
        v \in VolumeDraws, c \in ChangeDraws :
       LET o == [a \in Addresses |-> IF a = "A" THEN oA ELSE oB]
           fetched == [a \in Addresses |->
                         fetchRealTimeMarketData(JupiterAnswer(o[a]),
                                                 DexScreenerAnswer(o[a]), v, c)]
       IN  (/\ isRunning
            /\ Step(MainEnv, [op |-> "collectMarketData"],
                    collectMarketData(Bot, fetched)))
             => \A a \in Addresses :
                  IF NoPrice(o[a])
                  THEN marketDataCache'[a] = marketDataCache[a]
                  ELSE marketDataCache'[a] = fetched[a]]_vars


\* The nine heuristics of the primary scorer, as the conditions and weights
\* the claim lists.
Heuristics(stg, token, marketData, indicators) ==
  <<[on |-> Lt(indicators.rsi, I(30)), weight |-> 15],
    [on |-> Gt(indicators.rsi, I(70)), weight |-> -10],
    [on |-> Gt(marketData.price, indicators.sma20)
            /\ Gt(indicators.sma20, indicators.sma50), weight |-> 20],
    [on |-> Gt(indicators.macd.macd, indicators.macd.signal)
            /\ Gt(indicators.macd.histogram, I(0)), weight |-> 15],
    [on |-> Gt(marketData.volume24h, Mul(I(2), indicators.volumeProfile)),
     weight |-> 20],
    [on |-> Gt(token.liquidity, Mul(I(2), stg.minLiquidity)), weight |-> 10],
    [on |-> Gt(token.holders, Mul(Norm(3, 2), stg.minHolders)), weight |-> 10],
    [on |-> Gt(Mul(token.socialMentions, stg.socialSentimentWeight), I(30)),
     weight |-> 20],
    [on |-> Lt(token.ageMinutes, I(60)), weight |-> 10]>>

RECURSIVE PlainSum(_)
PlainSum(hs) ==
  IF hs = <<>> THEN 0
  ELSE (IF Head(hs).on THEN Head(hs).weight ELSE 0) + PlainSum(Tail(hs))

\* The eight heuristics of positive weight all trigger.
AllPositive(hs) == \A k \in 1..Len(hs) : hs[k].on <=> hs[k].weight > 0

\* A call of the primary scorer on a token with a snapshot and indicators.
ScoredCall ==
  /\ call.op = "generateAdvancedTradingSignal"
  /\ call.marketData # Null
  /\ call.indicators # Null

\* C18 as stated: when all eight positive heuristics trigger, the
\* accumulated sum is 140.
C18_AllEightSum140 ==
  ScoredCall =>
    LET hs == Heuristics(call.settings, call.token, call.marketData, call.indicators)
    IN  AllPositive(hs) => PlainSum(hs) = 140

\* C18, amended: the accumulated score is the plain sum of the weights of
\* the heuristics that trigger; the scorer returns null exactly when the sum
\* is below 60 and otherwise a signal of confidence min(sum, 95); when all
\* eight positive heuristics trigger the sum is 120 and the signal is a BUY
\* of confidence 95.
C18_PlainSumOfWeights ==
  ScoredCall =>
    LET hs == Heuristics(call.settings, call.token, call.marketData, call.indicators)
        sum == PlainSum(hs)
    IN  /\ AdvancedScore(call.settings, call.token, call.marketData,
                         call.indicators).confidence = I(sum)
        /\ call.result = Null <=> sum < 60
        /\ call.result # Null =>
             call.result.confidence = I(IF sum < 95 THEN sum ELSE 95)
        /\ AllPositive(hs) =>
             /\ sum = 120
             /\ call.result # Null
             /\ call.result.signal = "BUY"
             /\ call.result.confidence = I(95)

\* The scorer was called with all eight positive heuristics triggering.
C18_Witness ==
  /\ ScoredCall
  /\ AllPositive(Heuristics(call.settings, call.token, call.marketData,
                            call.indicators))
  /\ call.result # Null
  /\ call.result.confidence = I(95)
  /\ Len(call.result.reason) = 8


\* The BUY records a step appends to the bot's trade history.
NewBuys ==
  {tradeHistory'[k] : k \in (Len(tradeHistory) + 1)..Len(tradeHistory')}

RunningValue(dailyReturns, k) ==
  Add(I(1000), SumReturns(SubSeq(dailyReturns, 1, k)))

\* The highest running value seen in the series up to day k; opening is {} or
\* the value {1000} the series starts from.
RunningPeak(dailyReturns, k, opening) ==
  LET seen == {RunningValue(dailyReturns, j) : j \in 1..k} \cup opening
  IN  CHOOSE v \in seen : \A w \in seen : Le(w, v)

\* The percentage declines of the running value from its running peak.
Declines(dailyReturns, opening) ==
  {Mul(Div(Sub(RunningPeak(dailyReturns, k, opening), RunningValue(dailyReturns, k)),
           RunningPeak(dailyReturns, k, opening)), I(100)) :
     k \in 1..Len(dailyReturns)}

LargestDecline(dailyReturns, opening) ==
  CHOOSE d \in Declines(dailyReturns, opening) :
    \A e \in Declines(dailyReturns, opening) : Le(e, d)

\* C20: generatePortfolioAnalytics reports as maxDrawdown the largest
\* percentage decline of the running value from its running peak over the
\* daily P&L series, the running peak at each step being the highest running
\* value seen so far in that series (counted with or without the 1000 the
\* running value starts from).
C20_MaxDrawdownIsLargestDecline ==
  call.op = "generatePortfolioAnalytics" =>
    LET dailyReturns == [i \in 1..Len(call.performanceHistory) |->
                           call.performanceHistory[i].totalPnL]
    IN  call.result.maxDrawdown \in {LargestDecline(dailyReturns, {}),
                                     LargestDecline(dailyReturns, {I(1000)})}


\* The records of the history that are closed, by index.
Closed == {i \in 1..Len(strategyHistory) : strategyHistory[i].outcome # "ACTIVE"}

\* The pnl of the closed records of one strategy among the first k records.
RECURSIVE ClosedPnl(_, _)
ClosedPnl(name, k) ==
  IF k = 0 THEN I(0)
  ELSE IF k \in Closed /\ strategyHistory[k].strategyName = name
       THEN Add(ClosedPnl(name, k - 1), strategyHistory[k].pnl)
       ELSE ClosedPnl(name, k - 1)

ClosedNames == {strategyHistory[i].strategyName : i \in Closed}

\* C21: generateTradeAnalysis uses only the records whose outcome is not
\* ACTIVE: totalTrades is their count, winningTrades + losingTrades <=
\* totalTrades, winRate is 100 * winningTrades / totalTrades (0 when there are
\* none), profitFactor is avgWin / avgLoss and 0 when there is no LOSS
\* record, and bestStrategy / worstStrategy have the largest / smallest
\* summed pnl over those records.
C21_TradeAnalysis ==
  call.op = "generateTradeAnalysis" =>
    LET r == call.result
        total == Cardinality(Closed)
        winning == Cardinality({i \in Closed : strategyHistory[i].outcome = "WIN"})
        losing == Cardinality({i \in Closed : strategyHistory[i].outcome = "LOSS"})
    IN  /\ r.totalTrades = total
        /\ r.winningTrades = winning
        /\ r.losingTrades = losing
        /\ r.winningTrades + r.losingTrades <= r.totalTrades
        /\ r.winRate = IF total = 0 THEN I(0) ELSE Norm(100 * winning, total)
        /\ r.profitFactor = IF losing = 0 THEN I(0) ELSE Div(r.avgWin, r.avgLoss)
        /\ total > 0 =>
             /\ r.bestStrategy \in ClosedNames
             /\ r.worstStrategy \in ClosedNames
             /\ \A name \in ClosedNames :
                  /\ Le(ClosedPnl(name, Len(strategyHistory)),
                        ClosedPnl(r.bestStrategy, Len(strategyHistory)))
                  /\ Ge(ClosedPnl(name, Len(strategyHistory)),
                        ClosedPnl(r.worstStrategy, Len(strategyHistory)))

\* An analysis of a history with an open record, a loss, and two strategies
\* of different summed pnl.
C21_Witness ==
  /\ call.op = "generateTradeAnalysis"
  /\ \E i \in 1..Len(strategyHistory) : strategyHistory[i].outcome = "ACTIVE"
  /\ call.result.losingTrades > 0
  /\ call.result.winningTrades > 0
  /\ Gt(call.result.profitFactor, I(0))
  /\ call.result.bestStrategy # call.result.worstStrategy
  /\ call.result.totalTrades < Len(strategyHistory)


\* C22: generateStrategyAnalytics returns one entry per strategy name that
\* has a record whose outcome is not ACTIVE, each with profitability =
\* avgPnL * winRate when avgPnL > 0 and 0 otherwise (never negative), in
\* order of non-increasing profitability.
C22_StrategyAnalytics ==
  call.op = "generateStrategyAnalytics" =>
    LET r == call.result
    IN  /\ {r[k].name : k \in 1..Len(r)} = ClosedNames
        /\ Len(r) = Cardinality(ClosedNames)
        /\ \A k \in 1..Len(r) :
             /\ r[k].profitability =
                  IF Gt(r[k].avgPnL, I(0)) THEN Mul(r[k].avgPnL, r[k].winRate)
                  ELSE I(0)
             /\ Ge(r[k].profitability, I(0))
             /\ r[k].avgPnL =
                  Div(ClosedPnl(r[k].name, Len(strategyHistory)),
                      I(Cardinality({i \in Closed :
                                       strategyHistory[i].strategyName = r[k].name})))
        /\ \A k \in 1..(Len(r) - 1) :
             Ge(r[k].profitability, r[k + 1].profitability)

\* Strategy analytics of three strategies, the most profitable of which was
\* not the first to close a record, beside a strategy of profitability 0
\* and an open record.
C22_Witness ==
  /\ call.op = "generateStrategyAnalytics"
  /\ Len(call.result) >= 3
  /\ Gt(call.result[1].profitability, call.result[2].profitability)
  /\ call.result[Len(call.result)].profitability = I(0)
  /\ Lt(call.result[Len(call.result)].avgPnL, I(0))
  /\ call.result[1].name # strategyHistory[1].strategyName
  /\ \E i \in 1..Len(strategyHistory) : strategyHistory[i].outcome = "ACTIVE"


\* The ledger is overdrawn, or holds a position above 10% of totalValue.
OverLimit(p) ==
  \/ Lt(p.availableBalance, I(0))
  \/ \E k \in 1..Len(p.positions) :
       Gt(p.positions[k].amount, Div(p.totalValue, I(10)))

\* A suspended execution debits the ledger after another execution has
\* changed the balance its gate had checked.
StaleDebit ==
  \E k \in 1..Len(pending) :
    /\ pending[k].at = "placeBuyOrder"
    /\ pending' = [pending EXCEPT ![k].at = "setupAutomaticOrders"]
    /\ pending[k].checked # portfolio.availableBalance

\* C23: overlapping executions of executeAdvancedOrder can both pass the
\* gate's balance check before either debits the ledger; a state with
\* availableBalance < 0, or with a position above the 10% limit, is entered
\* only that way and never by executions that run one after another.
C23_OverLimitOnlyByOverlap ==
  [][(~OverLimit(portfolio) /\ OverLimit(portfolio')) => StaleDebit]_vars

\* Both executions passed the gate at a balance of 145; the second debit of
\* 95 has overdrawn the ledger.
C23_Witness ==
  /\ Lt(portfolio.availableBalance, I(0))
  /\ pending # <<>>
  /\ \E k \in 1..Len(pending) :
       /\ pending[k].at # "placeBuyOrder"
       /\ Ge(pending[k].checked, pending[k].trade.amount)
       /\ Lt(pending[k].checked, Mul(I(2), pending[k].trade.amount))


\* The signal the scorer gives for the token with address a.
SignalFor(a) ==
  generateAdvancedTradingSignal(
    Bot, AllTokens[CHOOSE i \in 1..Len(AllTokens) : AllTokens[i].address = a])

\* C24: a trading cycle applies a buy for a token only if the token then has
\* a market-data cache entry and an indicator entry and its signal is BUY
\* with confidence strictly above 75; signals of confidence 60 to 75 are
\* generated but never executed by the cycle.
C24_CycleBuysAbove75 ==
  [][call'.op = "executeFullTradingCycle" =>
       \A a \in Addresses :
         /\ (\E trade \in NewBuys : trade.tokenAddress = a /\ trade.action = "BUY")
              => /\ marketDataCache[a] # Null
                 /\ technicalIndicators[a] # Null
                 /\ SignalFor(a) # Null
                 /\ SignalFor(a).signal = "BUY"
                 /\ Gt(SignalFor(a).confidence, I(75))
         /\ (SignalFor(a) # Null /\ Le(SignalFor(a).confidence, I(75)))
              => /\ PosGet(portfolio'.positions, a) = PosGet(portfolio.positions, a)
                 /\ \A trade \in NewBuys : trade.tokenAddress # a]_vars

\* A cycle has bought token A, while token B, whose signal is BUY at
\* confidence 75, was left alone.
C24_Witness ==
  /\ call.op = "executeFullTradingCycle"
  /\ PosGet(portfolio.positions, "A") # Null
  /\ PosGet(portfolio.positions, "B") = Null
  /\ SignalFor("B") # Null
  /\ SignalFor("B").signal = "BUY"
  /\ SignalFor("B").confidence = I(75)
  /\ tradeHistory # <<>>


\* C25: with executions and forced exits run one at a time, every cached
\* price >= 0 and every avgPrice > 0, availableBalance is >= 0 in every
\* reachable state.
C25_BalanceNeverNegative ==
  (/\ \A a \in Addresses :
        marketDataCache[a] # Null => Ge(marketDataCache[a].price, I(0))
   /\ \A k \in 1..Len(portfolio.positions) :
        Gt(portfolio.positions[k].avgPrice, I(0)))
    => Ge(portfolio.availableBalance, I(0))


\* The sum of the amounts of the open positions.
RECURSIVE OpenAmount(_)
OpenAmount(positions) ==
  IF positions = <<>> THEN I(0)
  ELSE Add(Head(positions).amount, OpenAmount(Tail(positions)))

\* x === y on numbers: NaN equals nothing.
SameNumber(x, y) == ~IsNaN(x) /\ ~IsNaN(y) /\ x = y

\* C26: ledger conservation: after any sequence of executed buys and forced
\* exits, availableBalance plus the amounts of all open positions equals the
\* initial balance 1000 plus totalProfit.
C26_LedgerConservation ==
  SameNumber(Add(portfolio.availableBalance, OpenAmount(portfolio.positions)),
             Add(I(1000), portfolio.totalProfit))


\* The indices of the trade history that hold an exit.
Exits == {k \in 1..Len(tradeHistory) : tradeHistory[k].action = "SELL"}

\* The BUY records of the exit's token between its previous exit and this
\* one; each buy leaves two.
BuyRecordsOf(k) ==
  LET a == tradeHistory[k].tokenAddress
      earlier == {j \in Exits : j < k /\ tradeHistory[j].tokenAddress = a}
      from == IF earlier = {} THEN 0
              ELSE CHOOSE j \in earlier : \A i \in earlier : i <= j
  IN  {j \in (from + 1)..(k - 1) :
         tradeHistory[j].tokenAddress = a /\ tradeHistory[j].action = "BUY"}

\* C27: activeTrades equals the buys applied minus the forced exits applied
\* and is at least the number of open positions; it exceeds that number once
\* a position that received more than one buy has been exited.
C27_ActiveTrades ==
  /\ portfolio.activeTrades = Len(analyticsTrades) - Cardinality(Exits)
  /\ portfolio.activeTrades >= Len(portfolio.positions)
  /\ portfolio.activeTrades >= 0
  /\ (\E k \in Exits : Cardinality(BuyRecordsOf(k)) > 2)
       => portfolio.activeTrades > Len(portfolio.positions)

\* Token A was bought twice and exited once: one active trade is counted
\* with no position open.
C27_Witness ==
  /\ \E k \in Exits : Cardinality(BuyRecordsOf(k)) > 2
  /\ portfolio.positions = <<>>
  /\ portfolio.activeTrades = 1
  /\ Len(analyticsTrades) = 2


\* C28: whenever a token has no open position in the ledger, the analytics
\* history holds no record of that token with outcome ACTIVE: a full exit
\* closes every record opened by the buys merged into the exited position.
C28_NoActiveRecordWithoutPosition ==
  \A a \in Addresses :
    PosGet(portfolio.positions, a) = Null =>
      \A i \in 1..Len(strategyHistory) :
        strategyHistory[i].tokenAddress = a => strategyHistory[i].outcome # "ACTIVE"


\* C29: stop() never clears the timers start() registered: the number of
\* timer sets grows by one with every start() that passes its guard (not
\* running and enabled) and never decreases, so after a stop and a start
\* every cycle kind is driven by two timers.
C29_TimersNeverCleared ==
  [][/\ timers' >= timers
     /\ timers' <= timers + 1
     /\ (timers' = timers + 1) <=> (~isRunning /\ isRunning')
     /\ (~isRunning /\ isRunning') => settings'.enabled
     /\ (isRunning /\ ~isRunning') => timers' = timers]_vars

\* The bot was started, stopped and started again: two sets of timers drive
\* the running bot.
C29_Witness ==
  /\ timers = 2
  /\ isRunning
  /\ settings.enabled


\* C30: getPortfolioStatus is independent of the ledger: after any buys,
\* forced exits and revaluations it returns totalValue 1000, availableBalance
\* 500, totalProfit 150, activeTrades 3 and successRate 73.5, so runs that
\* differ only in their trades report the same status.
C30_StatusIgnoresLedger ==
  call.op = "getPortfolioStatus" =>
    call.portfolio =
      [totalValue |-> I(1000), availableBalance |-> I(500),
       totalProfit |-> I(150), activeTrades |-> 3, successRate |-> Norm(147, 2)]

\* The status was asked after a buy, a revaluation and a forced exit had
\* changed every figure of the ledger.
C30_Witness ==
  /\ call.op = "getPortfolioStatus"
  /\ \E k \in 1..Len(tradeHistory) : tradeHistory[k].action = "SELL"
  /\ IsFinite(portfolio.totalValue) /\ portfolio.totalValue # I(1000)
  /\ IsFinite(portfolio.availableBalance) /\ portfolio.availableBalance # I(500)
  /\ IsFinite(portfolio.totalProfit) /\ portfolio.totalProfit \notin {I(0), I(150)}
  /\ portfolio.activeTrades # 3

====
